---------------------------- MODULE Spec2Model ----------------------------
(***************************************************************************)
(* A model of koenigsberg_lib.py: the backtracking trail enumerator        *)
(* (_solve_from and its drivers), the exhausted-prefix set and its         *)
(* compaction, and the checkpoint save / load.                             *)
(*                                                                         *)
(* Python values are encoded as follows.                                   *)
(*   bytes / bytearray : a sequence of naturals (edge IDs, 0 = unused)     *)
(*   a dict keyed 1..K : a sequence of length K                            *)
(*   None or a set     : <<>> for None, <<S>> for the set S                *)
(*   a file on disk    : a record [kind, data], kind "absent", "partial"   *)
(*                       (a write that did not complete) or "complete"     *)
(***************************************************************************)
EXTENDS Integers, Sequences, FiniteSets, TLC

(***************************************************************************)
(* Bounds of the model.                                                    *)
(***************************************************************************)
MaxEdges == 3
MaxNodes == 4
MaxStarts == 2
MaxThreshold == 1
MaxInterval == 2
MaxRestarts == 1
MaxValidatedEdges == 2
MaxValidatedNodes == 2
MinSaveInterval == 1

(***************************************************************************)
(* Sequence helpers (Python slicing, filtering, sorting).                  *)
(***************************************************************************)
Range(s) == {s[i] : i \in DOMAIN s}

\* s[:k]
Prefix(s, k) == SubSeq(s, 1, k)

IsPrefix(p, s) == Len(p) <= Len(s) /\ Prefix(s, Len(p)) = p

IsProperPrefix(p, s) == Len(p) < Len(s) /\ Prefix(s, Len(p)) = p

NonZero(x) == x # 0

\* bytes([s for s in steps_taken if s])
Trimmed(path) == SelectSeq(path, NonZero)

\* the position at which x is inserted into the ascending sequence s
RECURSIVE Insert(_, _)
Insert(x, s) ==
  IF s = <<>> THEN <<x>>
  ELSE IF x <= Head(s) THEN <<x>> \o s
  ELSE <<Head(s)>> \o Insert(x, Tail(s))

\* sorted(s)
RECURSIVE Sorted(_)
Sorted(s) == IF s = <<>> THEN <<>> ELSE Insert(Head(s), Sorted(Tail(s)))

\* the ascending sequence of the members of a set of integers
RECURSIVE SetToSortedSeq(_)
SetToSortedSeq(S) ==
  IF S = {} THEN <<>>
  ELSE LET m == CHOOSE x \in S : \A y \in S : x <= y
       IN  <<m>> \o SetToSortedSeq(S \ {m})

\* bytearray([0] * n)
Zeros(n) == [i \in 1..n |-> 0]


(***************************************************************************)
(* The graphs of the model.  A graph is the pair normalize_dicts returns:  *)
(* paths_to_nodes[e] is the ascending pair of node IDs edge e connects,    *)
(* nodes_to_paths[n] the ascending tuple of edge IDs node n lists.         *)
(* Node IDs are given in order of first appearance along the edge list,    *)
(* which fixes one representative per renaming of the nodes (the           *)
(* enumerator only ever compares node IDs for equality).                   *)
(***************************************************************************)
NodePairs == {pr \in (1..MaxNodes) \X (1..MaxNodes) : pr[1] < pr[2]}

EdgeMaps == UNION {[1..m -> NodePairs] : m \in 1..MaxEdges}

NodesOf(p2n) == UNION {{p2n[e][1], p2n[e][2]} : e \in DOMAIN p2n}

\* the largest node ID named by the edges before edge e (0 if none)
MaxNodeBefore(p2n, e) ==
  LET seen == UNION {{p2n[f][1], p2n[f][2]} : f \in 1..(e - 1)}
  IN  IF seen = {} THEN 0 ELSE CHOOSE x \in seen : \A y \in seen : y <= x

FirstAppearanceOrder(p2n) ==
  \A e \in DOMAIN p2n :
    LET m == MaxNodeBefore(p2n, e)
    IN  /\ p2n[e][1] <= m + 1
        /\ p2n[e][2] <= (IF p2n[e][1] > m THEN p2n[e][1] ELSE m) + 1

\* the node -> edges map of the data model: node n lists exactly the edges
\* that name n as an endpoint, in ascending order
Incidence(p2n) ==
  [n \in 1..Cardinality(NodesOf(p2n)) |->
     SetToSortedSeq({e \in DOMAIN p2n : n \in {p2n[e][1], p2n[e][2]}})]

WellFormedEdgeMaps == {p2n \in EdgeMaps : FirstAppearanceOrder(p2n)}

\* every edge connects two distinct nodes, each of which lists that edge,
\* and a node lists an edge only if the edge names the node
WellFormed(p2n, n2p) ==
  /\ \A e \in DOMAIN p2n : p2n[e][1] # p2n[e][2]
  /\ \A e \in DOMAIN p2n : \A n \in DOMAIN n2p :
       (n \in {p2n[e][1], p2n[e][2]}) <=> (e \in Range(n2p[n]))
  /\ \A n \in DOMAIN n2p :
       \A i, j \in DOMAIN n2p[n] : i < j => n2p[n][i] < n2p[n][j]

\* the start lists handed to solve_from_multiple (solve_from: one start)
RECURSIVE SeqsUpTo(_, _)
SeqsUpTo(S, k) ==
  IF k = 0 THEN {<<>>}
  ELSE LET shorter == SeqsUpTo(S, k - 1)
       IN  shorter \cup {Append(q, x) : q \in shorter, x \in S}

StartLists(n2p) == SeqsUpTo(DOMAIN n2p, MaxStarts) \ {<<>>}

(***************************************************************************)
(* The graphs that pass _sanity_check_dicts, in the shape normalize_dicts  *)
(* gives them: the checks of lines 127-142 on the two maps.  They do not   *)
(* compare a node's edge list with the endpoints of its edges, nor the two *)
(* endpoints of an edge with each other, so more than the well-formed      *)
(* graphs pass.                                                            *)
(***************************************************************************)
MaxPaths == 255

\* util.flatten_list over the values of a map
Flattened(m) == UNION {Range(m[k]) : k \in DOMAIN m}

SanityCheckDicts(p2n, n2p) ==
  /\ Len(p2n) <= MaxPaths
  /\ (DOMAIN p2n) \ Flattened(n2p) = {}
  /\ (DOMAIN n2p) \ Flattened(p2n) = {}
  /\ \A path \in DOMAIN p2n :
       /\ Len(p2n[path]) = 2
       /\ \A i \in DOMAIN p2n[path] : p2n[path][i] \in DOMAIN n2p
  /\ \A node \in DOMAIN n2p :
       \A i \in DOMAIN n2p[node] : n2p[node][i] \in DOMAIN p2n

\* the ascending sequences over S of length at most k (repeats included)
AscendingSeqs(S, k) ==
  {q \in SeqsUpTo(S, k) : \A i, j \in DOMAIN q : i < j => q[i] <= q[j]}

ValidatedGraphs ==
  UNION {
    {g \in [p2n : [1..m -> AscendingSeqs(1..n, 2)],
            n2p : [1..n -> AscendingSeqs(1..m, m)]] :
       SanityCheckDicts(g.p2n, g.n2p)} :
    m \in 1..MaxValidatedEdges, n \in 1..MaxValidatedNodes}


(***************************************************************************)
(* User input and its two conversions.  A label is a tuple of naturals:    *)
(* the integer k is <<k>>, a one-letter string is <<its code point>>, and  *)
(* the tuple of two such labels is <<a, b>>.  Python orders these as it    *)
(* orders tuples, by the first place at which they differ.  A map of the   *)
(* user is a function from labels to sequences of labels.                  *)
(***************************************************************************)
LabelLess(a, b) ==
  \E i \in 1..Len(b) :
     /\ \A j \in 1..(i - 1) : j <= Len(a) /\ a[j] = b[j]
     /\ (i > Len(a) \/ a[i] < b[i])

\* sorted(S) for a set (or the keys of a dict) of labels: the label with
\* k - 1 smaller ones stands at place k
SortedLabels(S) ==
  LET ranked == {<<1 + Cardinality({x \in S : LabelLess(x, l)}), l>> : l \in S}
      at(k) == CHOOSE p \in ranked : p[1] = k
  IN  SubSeq([k \in 1..Cardinality(S) |-> at(k)[2]], 1, Cardinality(S))

RECURSIVE InsertLabel(_, _)
InsertLabel(x, s) ==
  IF s = <<>> THEN <<x>>
  ELSE IF ~LabelLess(Head(s), x) THEN <<x>> \o s
  ELSE <<Head(s)>> \o InsertLabel(x, Tail(s))

\* sorted(s) for a list of labels
RECURSIVE SortedLabelSeq(_)
SortedLabelSeq(s) ==
  IF s = <<>> THEN <<>> ELSE InsertLabel(Head(s), SortedLabelSeq(Tail(s)))

\* the pair as it is met, the listing node last
PairAsListed(a, b) == a \o b

\* tuple(sorted([a, b])) of two one-place labels
SortedPair(a, b) == IF LabelLess(b, a) THEN b \o a ELSE a \o b

\* graph_to_dicts, after its sanity check: one edge per pair of adjacent
\* nodes, named by the sorted pair
GraphToDicts(graph) ==
  LET all_paths ==
        UNION {{SortedPair(graph[node][i], node) : i \in DOMAIN graph[node]} :
               node \in DOMAIN graph}
  IN  [nodes_to_paths |->
         [key \in DOMAIN graph |->
            SortedLabelSeq([i \in DOMAIN graph[key] |->
                              SortedPair(key, graph[key][i])])],
       paths_to_nodes |->
         [path \in all_paths |-> << <<path[1]>>, <<path[2]>> >>]]

MaxIDs == 255

\* dict(zip(range(1, 256), sorted(keys)))
TranslationTable(keys) ==
  LET all == SortedLabels(keys)
  IN  Prefix(all, IF Len(all) <= MaxIDs THEN Len(all) ELSE MaxIDs)

\* {value: key for key, value in table.items()}
Reversed(table) ==
  [l \in Range(table) |-> CHOOSE k \in DOMAIN table : table[k] = l]

\* normalize_dicts, after its sanity check, on maps all of whose labels
\* receive an ID
NormalizeDicts(p2n, n2p) ==
  LET paths_x == TranslationTable(DOMAIN p2n)
      nodes_x == TranslationTable(DOMAIN n2p)
      paths_x_rev == Reversed(paths_x)
      nodes_x_rev == Reversed(nodes_x)
  IN  [paths_ret |->
         [k \in DOMAIN paths_x |->
            Sorted([i \in DOMAIN p2n[paths_x[k]] |->
                      nodes_x_rev[p2n[paths_x[k]][i]]])],
       nodes_ret |->
         [k \in DOMAIN nodes_x |->
            Sorted([i \in DOMAIN n2p[nodes_x[k]] |->
                      paths_x_rev[n2p[nodes_x[k]][i]]])],
       paths_x |-> paths_x, nodes_x |-> nodes_x,
       paths_x_rev |-> paths_x_rev, nodes_x_rev |-> nodes_x_rev]

(***************************************************************************)
(* normalize_dicts on dicts that hold their entries in a given order.      *)
(***************************************************************************)
MaxPermuted == 3

\* the orders in which a dict with the keys S may hold them: every order of
\* a few keys, the ascending and the descending order of many
KeyOrders(S) ==
  IF Cardinality(S) <= MaxPermuted
  THEN {q \in [1..Cardinality(S) -> S] : Range(q) = S}
  ELSE LET up == SortedLabels(S)
       IN  {up, [i \in DOMAIN up |-> up[Len(up) + 1 - i]]}

\* the keys in the order the dict holds them
KeysAsGiven(keys) == keys

\* sorted(d.keys()): the keys of a dict are distinct
SortedKeys(keys) == SortedLabels(Range(keys))

\* dict(zip(range(1, 256), sorted(d.keys())))
TranslationTableOf(keys) ==
  LET all == SortedKeys(keys)
  IN  Prefix(all, IF Len(all) <= MaxIDs THEN Len(all) ELSE MaxIDs)

\* the same dict with each value list taken as a set
FilledFromSets(d, keys, key_ids, value_ids) ==
  LET assigned == {<<key_ids[keys[i]], keys[i]>> : i \in DOMAIN keys}
  IN  [k \in {a[1] : a \in assigned} |->
         LET key == (CHOOSE a \in assigned : a[1] = k)[2]
         IN  SetToSortedSeq({value_ids[d[key][i]] : i \in DOMAIN d[key]})]

\* the dict that "for key, value_list in d.items(): ret[key_ids[key]] =
\* tuple(sorted(value_ids[v] for v in value_list))" fills
Filled(d, keys, key_ids, value_ids) ==
  LET assigned == {<<key_ids[keys[i]], keys[i]>> : i \in DOMAIN keys}
  IN  [k \in {a[1] : a \in assigned} |->
         LET key == (CHOOSE a \in assigned : a[1] = k)[2]
         IN  Sorted([i \in DOMAIN d[key] |-> value_ids[d[key][i]]])]

\* normalize_dicts after its sanity check, on maps all of whose labels
\* receive an ID and whose entries stand in the order path_keys, node_keys
NormalizeDictsItems(p2n, n2p, path_keys, node_keys) ==
  LET paths_x == TranslationTableOf(path_keys)
      nodes_x == TranslationTableOf(node_keys)
      paths_x_rev == Reversed(paths_x)
      nodes_x_rev == Reversed(nodes_x)
  IN  [paths_ret |-> Filled(p2n, path_keys, paths_x_rev, nodes_x_rev),
       nodes_ret |-> Filled(n2p, node_keys, nodes_x_rev, paths_x_rev),
       paths_x |-> paths_x, nodes_x |-> nodes_x,
       paths_x_rev |-> paths_x_rev, nodes_x_rev |-> nodes_x_rev]

(***************************************************************************)
(* The maps of sample_data.py used by tests.py.                            *)
(***************************************************************************)
\* an integer label, and a list of integer labels
IntLabel(k) == <<k>>

IntLabels(s) == [i \in DOMAIN s |-> IntLabel(s[i])]

four_spot_square ==
  (IntLabel(1) :> IntLabels(<<2, 4>>)) @@ (IntLabel(2) :> IntLabels(<<1, 3>>)) @@
  (IntLabel(3) :> IntLabels(<<2, 4>>)) @@ (IntLabel(4) :> IntLabels(<<1, 3>>))

hex_ring ==
  (IntLabel(1) :> IntLabels(<<2, 6>>)) @@ (IntLabel(2) :> IntLabels(<<1, 3>>)) @@
  (IntLabel(3) :> IntLabels(<<2, 4>>)) @@ (IntLabel(4) :> IntLabels(<<3, 5>>)) @@
  (IntLabel(5) :> IntLabels(<<4, 6>>)) @@ (IntLabel(6) :> IntLabels(<<1, 5>>))

\* the regions 'A' .. 'D', by code point
A == <<65>>

B == <<66>>

C == <<67>>

D == <<68>>

Koenigsberg ==
  [nodes_to_paths |->
     (A :> IntLabels(<<2, 3, 4, 5, 6>>)) @@ (B :> IntLabels(<<4, 5, 7>>)) @@
     (C :> IntLabels(<<2, 3, 1>>)) @@ (D :> IntLabels(<<1, 6, 7>>)),
   paths_to_nodes |->
     (IntLabel(1) :> <<C, D>>) @@ (IntLabel(2) :> <<C, A>>) @@ (IntLabel(3) :> <<C, A>>) @@
     (IntLabel(4) :> <<A, B>>) @@ (IntLabel(5) :> <<A, B>>) @@ (IntLabel(6) :> <<A, D>>) @@
     (IntLabel(7) :> <<B, D>>)]

\* print_all_dict_solutions: normalize_dicts of the two maps
DictsOf(single_dict) ==
  NormalizeDicts(single_dict.paths_to_nodes, single_dict.nodes_to_paths)

\* print_all_graph_solutions: normalize_dicts(*graph_to_dicts(graph))
DictsOfGraph(graph) == DictsOf(GraphToDicts(graph))

KoenigsbergMaps == DictsOf(Koenigsberg)

SquareMaps == DictsOfGraph(four_spot_square)

HexMaps == DictsOfGraph(hex_ring)

SampleMaps == {KoenigsbergMaps, SquareMaps, HexMaps}


(***************************************************************************)
(* The arguments as a caller passes them, before any check.  A value is a  *)
(* record: kind "dict" with the mapping as items, kind "tuple" with the    *)
(* sequence of its members, kind "str" with the sequence of its            *)
(* characters (each a one-place label), or kind "other" for what is        *)
(* neither a dict nor iterable (True, None).                               *)
(***************************************************************************)
DictOf(f) == [kind |-> "dict", items |-> f]

TupleOf(q) == [kind |-> "tuple", items |-> q]

StrOf(q) == [kind |-> "str", items |-> q]

Atom == [kind |-> "other", items |-> <<>>]

\* isinstance(x, Dict)
IsDict(x) == x.kind = "dict"

\* isinstance(x, Iterable)
IsIterable(x) == x.kind # "other"

\* what "for member in x" yields
Members(x) == Range(x.items)

\* the label a string is: its characters in a row
RECURSIVE Joined(_)
Joined(q) == IF q = <<>> THEN <<>> ELSE Head(q) \o Joined(Tail(q))

\* None, which is no key of the maps drawn below
NoneLabel == <<0>>

\* set(util.flatten_list(d.values())): the members of a value that is
\* iterable and no string, and any other value itself
FlattenList(d) ==
  UNION {IF d[k].kind = "tuple" THEN Members(d[k])
         ELSE IF d[k].kind = "str" THEN {Joined(d[k].items)}
         ELSE {NoneLabel} : k \in DOMAIN d}

\* the try block of _sanity_check_dicts: TRUE when no assertion fails
SanityCheckArgs(p, n) ==
  /\ IsDict(p)
  /\ IsDict(n)
  /\ Cardinality(DOMAIN p.items) <= MaxPaths
  /\ (DOMAIN p.items) \ FlattenList(n.items) = {}
  /\ (DOMAIN n.items) \ FlattenList(p.items) = {}
  /\ \A path \in DOMAIN p.items :
       /\ IsIterable(p.items[path])
       /\ Len(p.items[path].items) = 2
       /\ \A node \in Members(p.items[path]) : node \in DOMAIN n.items
  /\ \A node \in DOMAIN n.items :
       /\ IsIterable(n.items[node])
       /\ \A path \in Members(n.items[node]) : path \in DOMAIN p.items

\* _sanity_check_dicts: what the call does
SanityCheckOutcome(p, n, raise_error) ==
  IF SanityCheckArgs(p, n) THEN "True"
  ELSE IF raise_error THEN "ValueError" ELSE "False"

\* the mapping a dict of iterables is, each value as the sequence it yields
Plain(d) == [k \in DOMAIN d.items |-> d.items[k].items]

\* whether every lookup of lines 191-194 finds its key
AllLabelsHaveIDs(p2n, n2p) ==
  LET paths_x == TranslationTable(DOMAIN p2n)
      nodes_x == TranslationTable(DOMAIN n2p)
  IN  /\ \A path \in DOMAIN p2n :
           /\ path \in Range(paths_x)
           /\ \A i \in DOMAIN p2n[path] : p2n[path][i] \in Range(nodes_x)
      /\ \A node \in DOMAIN n2p :
           /\ node \in Range(nodes_x)
           /\ \A i \in DOMAIN n2p[node] : n2p[node][i] \in Range(paths_x)

\* normalize_dicts: what the call does
NormalizeOutcome(p, n, raise_error) ==
  IF ~SanityCheckArgs(p, n)
  THEN IF raise_error THEN "ValueError" ELSE "SystemExit"
  ELSE IF AllLabelsHaveIDs(Plain(p), Plain(n)) THEN "normalized"
  ELSE "KeyError"

(***************************************************************************)
(* The arguments drawn: every pair of small maps, well formed or not, and  *)
(* well-formed maps with about MaxPaths edges.                             *)
(***************************************************************************)
MaxNodeListLen == 3
MaxPathListLen == 2
MaxManyEdges == 257

SmallPathLabels == {<<97>>, <<97, 97>>}

SmallNodeLabels == {<<1>>, <<2>>}

\* the dicts with keys among K and values among V
Dicts(K, V) == UNION {{DictOf(f) : f \in [keys -> V]} : keys \in SUBSET K}

SmallPathsToNodes ==
  Dicts(SmallPathLabels,
        {TupleOf(q) : q \in SeqsUpTo(SmallNodeLabels, MaxNodeListLen)}
          \cup {Atom})
    \cup {Atom}

SmallNodesToPaths ==
  Dicts(SmallNodeLabels,
        {TupleOf(q) : q \in SeqsUpTo(SmallPathLabels, MaxPathListLen)}
          \cup {StrOf(q) : q \in SeqsUpTo({<<97>>}, MaxPathListLen) \ {<<>>}}
          \cup {Atom})
    \cup {Atom}

\* the node map that lists at each node of p2n the edges naming it
NodesListing(p2n) ==
  LET nodes == UNION {Range(p2n[e]) : e \in DOMAIN p2n}
  IN  [node \in nodes |->
         SortedLabels({e \in DOMAIN p2n : node \in Range(p2n[e])})]

\* a map given by its edges, as the two dicts
ArgsOf(p2n) ==
  LET listing == NodesListing(p2n)
  IN  [paths_to_nodes |-> DictOf([e \in DOMAIN p2n |-> TupleOf(p2n[e])]),
       nodes_to_paths |->
         DictOf([node \in DOMAIN listing |-> TupleOf(listing[node])])]

\* m edges in a row over m + 1 nodes; m edges in a ring over m nodes
ChainEdges(m) ==
  [e \in {IntLabel(k) : k \in 1..m} |-> <<e, IntLabel(e[1] + 1)>>]

CycleEdges(m) ==
  [e \in {IntLabel(k) : k \in 1..m} |-> <<e, IntLabel((e[1] % m) + 1)>>]

ManyEdges(most) ==
  UNION {{ArgsOf(ChainEdges(m)), ArgsOf(CycleEdges(m))} :
         m \in (MaxPaths - 1)..most}

SmallArguments ==
  [paths_to_nodes : SmallPathsToNodes, nodes_to_paths : SmallNodesToPaths]


(***************************************************************************)
(* The adjacency argument: a dict from node labels to what the caller      *)
(* gives as the list of adjacent nodes, or a value that is no dict.        *)
(***************************************************************************)
\* a list given as a label: no instance of Hashable
Unhashable == <<0, 0>>

\* isinstance(x, Hashable)
IsHashable(x) == x # Unhashable

\* "node in x" for an integer node: a membership test on a tuple, a
\* TypeError on a string and on a value that is not iterable
NodeIn(node, x) == x.kind = "tuple" /\ node \in Members(x)

\* the same block without the test that the destination leads back
SanityCheckGraphArgOneWay(graph) ==
  /\ IsDict(graph)
  /\ \A node \in DOMAIN graph.items :
       /\ IsHashable(node)
       /\ IsIterable(graph.items[node])
       /\ graph.items[node].kind # "str"
       /\ \A dest \in Members(graph.items[node]) :
            /\ IsHashable(dest)
            /\ dest \in DOMAIN graph.items

\* the try block of _sanity_check_graph: TRUE when no assertion fails and
\* no lookup raises
SanityCheckGraphArg(graph) ==
  /\ IsDict(graph)
  /\ \A node \in DOMAIN graph.items :
       /\ IsHashable(node)
       /\ IsIterable(graph.items[node])
       /\ graph.items[node].kind # "str"
       /\ \A dest \in Members(graph.items[node]) :
            /\ IsHashable(dest)
            /\ dest \in DOMAIN graph.items
            /\ NodeIn(node, graph.items[dest])

\* _sanity_check_graph: what the call does
SanityCheckGraphOutcome(graph, raise_error) ==
  IF SanityCheckGraphArg(graph) THEN "True"
  ELSE IF raise_error THEN "ValueError" ELSE "False"

\* graph_to_dicts: it checks with raise_error left at True, so that a graph
\* failing the check raises
GraphToDictsOutcome(graph) ==
  IF SanityCheckGraphArg(graph) THEN "converted" ELSE "ValueError"

MaxDestListLen == 2

GraphNodeLabels == {IntLabel(k) : k \in 1..3}

\* what a small adjacency dict may hold as the destination list of a node
GraphDestLists ==
  {TupleOf(q) : q \in SeqsUpTo(GraphNodeLabels, MaxDestListLen)}
    \cup {TupleOf(<<Unhashable>>), StrOf(<< <<97>> >>), Atom}

\* adjacency arguments that are no dict
NotDictGraphs == {Atom, TupleOf(<<IntLabel(1), IntLabel(2)>>)}


(***************************************************************************)
(* State.                                                                  *)
(***************************************************************************)
VARIABLES
  \* the input of the run, fixed once chosen
  paths_to_nodes,                  \* edge ID -> <<node, node>>
  nodes_to_paths,                  \* node ID -> tuple of edge IDs
  starts_from,                     \* the start nodes, in the order searched
  track,                           \* whether a run begins with exhausted_paths = set()
  exhausted_paths_prune_threshold,
  checkpoint_interval,
  checkpoint_path,                 \* None, or the path of the checkpoint file
  input,                           \* None, or the arguments of the call that
                                   \* checks or normalizes the maps
  outcome,                         \* what that call did
  translation,                     \* None, or the translation tables that
                                   \* normalize_dicts returned
  \* the clock as lines 84, 296 and 322 read it, followed where do_save and
  \* do_load_progress are called on their own
  now,                             \* time.monotonic() in the running process
  run_start,
  total_time,                      \* None, or the 'total_time' entry of the
                                   \* checkpoint file
  loaded_time,                     \* history: None, or the clock and the
                                   \* 'total_time' entry at the load
  \* module globals of the running process
  solutions,
  exhausted_paths,                 \* None, or a set of trimmed step sequences
  paths_length_at_last_prune,
  total_paths_exhausted_num,
  \* the generator chain solve_from_multiple -> _solve_from -> ...
  phase,                           \* "ready", "running", "done", "crashed"; before
                                   \* a search "input", "checked", "exited"
  next_start,                      \* how many entries of starts_from were begun
  steps_taken,                     \* the shared bytearray
  stack,                           \* the active _solve_from calls, outermost first
  \* the file system
  checkpoint_file,                 \* the file at checkpoint_path
  backup_file,                     \* the kind of the file at the backup name,
                                   \* which the program never reads
  \* the clock
  since_last_save,                 \* time.monotonic() - last_save, counted in
                                   \* ticks up to MinSaveInterval
  \* history, not program state
  emitted,                         \* what this process yielded, with the start node
  restarts,                        \* how many times the process was started again
  load_status,                     \* what do_load_progress did in this process
  at_save,                         \* the globals when the last completed save ended
  save_completed,                  \* whether any save ever completed
  prune_input,                     \* the set the last step's compaction was given
  save_failed,                     \* whether a save of this process failed
  reference                        \* the solution set of a finished run begun empty

clock == <<now, run_start, total_time, loaded_time>>

config == <<paths_to_nodes, nodes_to_paths, starts_from, track,
            exhausted_paths_prune_threshold, checkpoint_interval,
            checkpoint_path, input, outcome, translation, clock>>

globals == <<solutions, exhausted_paths, paths_length_at_last_prune,
             total_paths_exhausted_num>>

disk == <<checkpoint_file, backup_file>>

vars == <<config, globals, phase, next_start, steps_taken, stack, disk,
          since_last_save, emitted, restarts, load_status, at_save,
          save_completed, prune_input, save_failed, reference>>

None == <<>>

Some(x) == <<x>>

NumPaths == Len(paths_to_nodes)

NoData == [solutions |-> {}, exhausted_paths |-> None, num_exhausted |-> 0]

Absent == [kind |-> "absent", data |-> NoData]

Partial == [kind |-> "partial", data |-> NoData]

Complete(d) == [kind |-> "complete", data |-> d]


(***************************************************************************)
(* The pure parts of koenigsberg_lib.py.                                   *)
(***************************************************************************)
\* Python truth value of exhausted_paths: false for None and for set()
Truthy(ep) == ep # None /\ ep[1] # {}

(***************************************************************************)
(* Faulty variants of the pure parts.  Each departs from the code in one   *)
(* place; the properties below tell it from the definition it stands by.   *)
(***************************************************************************)
\* NextSteps without "if p not in steps_taken"
NextStepsIgnoringTaken(start_from, path) == Sorted(nodes_to_paths[start_from])

\* NextSteps offering every edge not yet taken, incident or not
NextStepsAnyEdge(start_from, path) ==
  SelectSeq([e \in 1..NumPaths |-> e], LAMBDA p : p \notin Range(path))

\* NextSteps with the candidates in descending order
NextStepsDescending(start_from, path) ==
  LET Untaken(q) == q \notin Range(path)
      up == Sorted(SelectSeq(nodes_to_paths[start_from], Untaken))
  IN  [k \in DOMAIN up |-> up[Len(up) + 1 - k]]

\* [p for p in nodes_to_paths[start_from] if p not in steps_taken], sorted
NextSteps(start_from, path) ==
  LET Untaken(q) == q \notin Range(path)
  IN  Sorted(SelectSeq(nodes_to_paths[start_from], Untaken))

\* NextLocs with "p == start_from" for "p != start_from"
NextLocsSameNode(next_path, start_from) ==
  SelectSeq(paths_to_nodes[next_path], LAMBDA p : p = start_from)

\* [p for p in paths_to_nodes[next_path] if p != start_from]; the code takes
\* element [0] of it
NextLocs(next_path, start_from) ==
  LET Other(q) == q # start_from
  IN  SelectSeq(paths_to_nodes[next_path], Other)

\* path_is_pruned with range(1, len(..)) for range(1, 1 + len(..)): the
\* step just written is left out of the longest prefix asked for
PathIsPrunedShortOfLast(ep, path) ==
  IF ~Truthy(ep) THEN FALSE
  ELSE \E length \in 1..(Len(Trimmed(path)) - 1) : Prefix(path, length) \in ep[1]

\* path_is_pruned(path), reading the global exhausted_paths as ep
PathIsPruned(ep, path) ==
  IF ~Truthy(ep) THEN FALSE
  ELSE \E length \in 1..Len(Trimmed(path)) : Prefix(path, length) \in ep[1]

\* the compaction keeping the members that have a proper prefix among the
\* members, where the code keeps the others
PrunedPathsListInverted(members) ==
  {q \in members :
     \E length \in 0..(Len(q) - 1) : Prefix(q, length) \in members}

\* the compaction keeping every member
PrunedPathsListKeepingAll(members) == members

\* the compaction looking for the prefixes of a member in the set it was
\* given, where the code looks in the set it is building
PrunedPathsListTestingTheInput(members) ==
  {q \in members :
     \A length \in 0..Len(q) : Prefix(q, length) \notin members}

\* the loop of do_prune_exhausted_paths_list over the members of length k
\* and more, in ascending length: a member is kept if none of its prefixes
\* (of length 0 up to its own) is already kept
RECURSIVE KeepFromLength(_, _, _)
KeepFromLength(members, k, kept) ==
  IF \A q \in members : Len(q) < k THEN kept
  ELSE KeepFromLength(members, k + 1,
         kept \cup {q \in members :
                      /\ Len(q) = k
                      /\ \A length \in 0..Len(q) : Prefix(q, length) \notin kept})

PrunedPathsList(members) == KeepFromLength(members, 0, {})

\* do_prune_exhausted_paths_list() on the globals g = [ep, plen]
DoPruneExhaustedPathsList(g) ==
  IF ~Truthy(g.ep) THEN g
  ELSE LET pruned_paths_list == PrunedPathsList(g.ep[1])
       IN  [ep |-> Some(pruned_paths_list),
            plen |-> Cardinality(pruned_paths_list)]

\* the dictionary without the solutions found so far
SaveDataWithoutSolutions(sols, ep, num) ==
  [solutions |-> {}, exhausted_paths |-> ep, num_exhausted |-> num]

\* the dictionary with the size of the set where the code has the counter
SaveDataCountingMembers(sols, ep, num) ==
  [solutions |-> sols, exhausted_paths |-> ep,
   num_exhausted |-> IF ep = None THEN 0 ELSE Cardinality(ep[1])]

\* the dictionary do_save pickles
SaveData(sols, ep, num) ==
  [solutions |-> sols, exhausted_paths |-> ep, num_exhausted |-> num]

\* an exception swallowed in the call that raised it, which then returns
RaiseFromCaught(stk) ==
  [phase |-> "running", stack |-> SubSeq(stk, 1, Len(stk) - 1)]

\* the counter left alone at a dead end when the set is not tracked
DeadEndCountWhenTracked(ep, num) == IF ep # None THEN num + 1 ELSE num

\* an exception raised in the call at the top of stk: neither _solve_from nor
\* solve_from / solve_from_multiple has an except clause, so every active
\* call is left and the generator chain ends with the exception
RaiseFrom(stk) == [phase |-> "crashed", stack |-> <<>>]

\* do_save without the test of line 287
DoSaveProceedsIgnoringClock(path, since) == path # None

\* lines 285-288 of do_save: whether it goes on to compact and write, given
\* checkpoint_path and time.monotonic() - last_save (the call at line 394 is
\* never forced)
DoSaveProceeds(path, since) ==
  /\ path # None
  /\ ~(since < MinSaveInterval)

\* the test of line 387 with >= for >
OutgrownOrReached(members, threshold, plen) ==
  Cardinality(members) >= threshold + plen

\* line 387: len(exhausted_paths) >
\* (exhausted_paths_prune_threshold + paths_length_at_last_prune)
Outgrown(members, threshold, plen) ==
  Cardinality(members) > threshold + plen

\* line 384: the counter after a dead end, with exhausted_paths = ep
DeadEndCount(ep, num) == num + 1

\* the frame of a call _solve_from(.., start_from, steps_taken, num_steps_taken, ..):
\* next_steps is what line 374 computes on entry, i the position of the for
\* loop in sorted(next_steps), called whether the frame waits at its yield from
\* (skipped is history: how many candidates line 379 did not recurse into)
Frame(start_from, path, num_steps_taken) ==
  [start_from |-> start_from,
   num_steps_taken |-> num_steps_taken,
   next_steps |-> IF num_steps_taken = NumPaths THEN <<>>
                  ELSE NextSteps(start_from, path),
   i |-> 1,
   called |-> FALSE,
   skipped |-> 0]

Top == stack[Len(stack)]

Popped == SubSeq(stack, 1, Len(stack) - 1)

ReplaceTop(f) == [stack EXCEPT ![Len(stack)] = f]


(***************************************************************************)
(* Initial states: the process has been started on a validated, normalized *)
(* graph, its globals hold their module-level defaults (exhausted_paths    *)
(* None, "or a set(), if we're tracking progress"), no checkpoint file     *)
(* exists yet and no generator has been advanced.  The settings that have  *)
(* no effect in a run keep their defaults.                                 *)
(***************************************************************************)
DefaultCheckpointInterval == 10

\* the clock is not followed: nothing below reads or sets these
ClockUnread ==
  /\ now = 0
  /\ run_start = 0
  /\ total_time = None
  /\ loaded_time = None

DefaultPruneThreshold == 1000

CheckpointName == "checkpoint"

\* a run on the maps p2n, n2p, begun in a fresh process, with the start
\* list, the prune threshold and the checkpoint interval drawn from the
\* given sets
InitConfigured(p2n, n2p, start_lists, thresholds, intervals) ==
  /\ paths_to_nodes = p2n
  /\ nodes_to_paths = n2p
  /\ starts_from \in start_lists
  /\ track \in BOOLEAN
  /\ exhausted_paths_prune_threshold \in
       IF track THEN thresholds ELSE {DefaultPruneThreshold}
  /\ checkpoint_path \in {None, Some(CheckpointName)}
  /\ checkpoint_interval \in
       IF checkpoint_path = None THEN {DefaultCheckpointInterval}
       ELSE intervals
  /\ input = None
  /\ outcome = "none"
  /\ translation = None
  /\ ClockUnread
  /\ solutions = {}
  /\ exhausted_paths = IF track THEN Some({}) ELSE None
  /\ paths_length_at_last_prune = 0
  /\ total_paths_exhausted_num = 0
  /\ phase = "ready"
  /\ next_start = 0
  /\ steps_taken = <<>>
  /\ stack = <<>>
  /\ checkpoint_file = Absent
  /\ backup_file = "absent"
  /\ since_last_save = 0
  /\ save_failed = FALSE
  /\ emitted = <<>>
  /\ restarts = 0
  /\ load_status = "none"
  /\ at_save = NoData
  /\ save_completed = FALSE
  /\ prune_input = None
  /\ reference = None

InitRun(p2n, n2p) ==
  InitConfigured(p2n, n2p, StartLists(n2p), 0..MaxThreshold, 1..MaxInterval)

Init == \E p2n \in WellFormedEdgeMaps : InitRun(p2n, Incidence(p2n))

(***************************************************************************)
(* solve_from / solve_from_multiple / solve_from_all: allocate the buffer  *)
(* once, then run _solve_from for each start in turn.                      *)
(***************************************************************************)
SolveNextStart ==
  /\ phase \in {"ready", "running"}
  /\ stack = <<>>
  /\ next_start < Len(starts_from)
  /\ LET buffer == IF phase = "ready" THEN Zeros(NumPaths) ELSE steps_taken
     IN  /\ steps_taken' = buffer
         /\ stack' = <<Frame(starts_from[next_start + 1], buffer, 0)>>
  /\ next_start' = next_start + 1
  /\ phase' = "running"
  /\ prune_input' = None
  /\ UNCHANGED <<config, globals, disk, emitted, restarts, load_status,
                 at_save, save_completed, since_last_save, save_failed,
                 reference>>

\* the generator is exhausted: every start was searched
Finish ==
  /\ phase = "running"
  /\ stack = <<>>
  /\ next_start = Len(starts_from)
  /\ phase' = "done"
  /\ reference' = IF load_status # "ok" /\ reference = None
                  THEN Some(solutions) ELSE reference
  /\ prune_input' = None
  /\ UNCHANGED <<config, globals, next_start, steps_taken, stack, disk,
                 emitted, restarts, load_status, at_save, save_completed,
                 since_last_save, save_failed>>

(***************************************************************************)
(* _solve_from, one action per branch of the call at the top of the stack. *)
(***************************************************************************)
\* Emit without line 370: the solution is yielded and not recorded
EmitWithoutRecording ==
  /\ phase = "running"
  /\ stack # <<>>
  /\ Top.num_steps_taken = NumPaths
  /\ emitted' = Append(emitted,
                  [start |-> starts_from[next_start],
                   trail |-> Trimmed(steps_taken)])
  /\ stack' = Popped
  /\ prune_input' = None
  /\ UNCHANGED <<config, globals, phase, next_start, steps_taken,
                 disk, restarts, load_status, at_save, save_completed,
                 since_last_save, save_failed, reference>>

\* lines 368-371: every path was taken; record and yield the solution
Emit ==
  /\ phase = "running"
  /\ stack # <<>>
  /\ Top.num_steps_taken = NumPaths
  /\ LET sol == Trimmed(steps_taken)
     IN  /\ solutions' = solutions \cup {sol}
         /\ emitted' = Append(emitted,
                         [start |-> starts_from[next_start], trail |-> sol])
  /\ stack' = Popped
  /\ prune_input' = None
  /\ UNCHANGED <<config, exhausted_paths, paths_length_at_last_prune,
                 total_paths_exhausted_num, phase, next_start, steps_taken,
                 disk, restarts, load_status, at_save, save_completed,
                 since_last_save, save_failed, reference>>

\* lines 376-380: take the next candidate; IndexError at line 377 when the
\* edge names no node other than start_from
Descend ==
  /\ phase = "running"
  /\ stack # <<>>
  /\ Top.num_steps_taken < NumPaths
  /\ ~Top.called
  /\ Top.i <= Len(Top.next_steps)
  /\ LET next_path == Top.next_steps[Top.i]
         next_locs == NextLocs(next_path, Top.start_from)
         written == [steps_taken EXCEPT ![Top.num_steps_taken + 1] = next_path]
     IN  IF next_locs = <<>>
         THEN /\ phase' = RaiseFrom(stack).phase
              /\ stack' = RaiseFrom(stack).stack
              /\ UNCHANGED steps_taken
         ELSE /\ ~Truthy(exhausted_paths) \/ ~PathIsPruned(exhausted_paths, written)
              /\ steps_taken' = written
              /\ stack' = Append(ReplaceTop([Top EXCEPT !.called = TRUE]),
                                 Frame(next_locs[1], written,
                                       Top.num_steps_taken + 1))
              /\ UNCHANGED phase
  /\ prune_input' = None
  /\ UNCHANGED <<config, globals, next_start, disk, emitted, restarts,
                 load_status, at_save, save_completed, since_last_save, save_failed,
                 reference>>

\* lines 378-381 when path_is_pruned says yes: write the slot, skip the
\* recursion, clear the slot
SkipPruned ==
  /\ phase = "running"
  /\ stack # <<>>
  /\ Top.num_steps_taken < NumPaths
  /\ ~Top.called
  /\ Top.i <= Len(Top.next_steps)
  /\ LET next_path == Top.next_steps[Top.i]
         written == [steps_taken EXCEPT ![Top.num_steps_taken + 1] = next_path]
     IN  /\ NextLocs(next_path, Top.start_from) # <<>>
         /\ Truthy(exhausted_paths)
         /\ PathIsPruned(exhausted_paths, written)
         /\ steps_taken' = [written EXCEPT ![Top.num_steps_taken + 1] = 0]
  /\ stack' = ReplaceTop([Top EXCEPT !.i = @ + 1, !.skipped = @ + 1])
  /\ prune_input' = None
  /\ UNCHANGED <<config, globals, phase, next_start, disk, emitted, restarts,
                 load_status, at_save, save_completed, since_last_save, save_failed,
                 reference>>

\* Backtrack without line 381: the slot keeps the step just taken
BacktrackKeepingSlot ==
  /\ phase = "running"
  /\ stack # <<>>
  /\ Top.called
  /\ stack' = ReplaceTop([Top EXCEPT !.i = @ + 1, !.called = FALSE])
  /\ prune_input' = None
  /\ UNCHANGED <<config, globals, phase, next_start, steps_taken, disk,
                 emitted, restarts, load_status, at_save, save_completed,
                 since_last_save, save_failed, reference>>

\* Backtrack with the for loop of line 376 taking the same candidate again
BacktrackWithoutAdvancing ==
  /\ phase = "running"
  /\ stack # <<>>
  /\ Top.called
  /\ steps_taken' = [steps_taken EXCEPT ![Top.num_steps_taken + 1] = 0]
  /\ stack' = ReplaceTop([Top EXCEPT !.called = FALSE])
  /\ prune_input' = None
  /\ UNCHANGED <<config, globals, phase, next_start, disk, emitted, restarts,
                 load_status, at_save, save_completed, since_last_save, save_failed,
                 reference>>

\* line 381 after the recursive call returned
Backtrack ==
  /\ phase = "running"
  /\ stack # <<>>
  /\ Top.called
  /\ steps_taken' = [steps_taken EXCEPT ![Top.num_steps_taken + 1] = 0]
  /\ stack' = ReplaceTop([Top EXCEPT !.i = @ + 1, !.called = FALSE])
  /\ prune_input' = None
  /\ UNCHANGED <<config, globals, phase, next_start, disk, emitted, restarts,
                 load_status, at_save, save_completed, since_last_save, save_failed,
                 reference>>

\* the for loop of line 376 is over: the call returns
Return ==
  /\ phase = "running"
  /\ stack # <<>>
  /\ Top.num_steps_taken < NumPaths
  /\ ~Top.called
  /\ Top.next_steps # <<>>
  /\ Top.i > Len(Top.next_steps)
  /\ stack' = Popped
  /\ prune_input' = None
  /\ UNCHANGED <<config, globals, phase, next_start, steps_taken, disk,
                 emitted, restarts, load_status, at_save, save_completed,
                 since_last_save, save_failed, reference>>


\* lines 383-394: a dead end.  Count it, record the trimmed buffer, compact
\* the set when it outgrew the threshold, then do_save() when the depth is a
\* multiple of checkpoint_interval.  do_save (lines 285-305) returns at once
\* without a checkpoint path or when min_save_interval has not elapsed since
\* last_save; otherwise it
\* compacts, renames an existing checkpoint file to the backup name and
\* writes the new file.  A write that fails leaves a partial file and its
\* exception unwinds every active call.
DeadEnd ==
  /\ phase = "running"
  /\ stack # <<>>
  /\ Top.num_steps_taken < NumPaths
  /\ Top.next_steps = <<>>
  /\ total_paths_exhausted_num' =
       DeadEndCount(exhausted_paths, total_paths_exhausted_num)
  /\ \E written \in BOOLEAN :
       LET g0 == [ep |-> exhausted_paths, plen |-> paths_length_at_last_prune]
           g1 == IF g0.ep # None
                 THEN [g0 EXCEPT !.ep = Some(g0.ep[1] \cup {Trimmed(steps_taken)})]
                 ELSE g0
           over == /\ g1.ep # None
                   /\ Outgrown(g1.ep[1], exhausted_paths_prune_threshold, g1.plen)
           g2 == IF over THEN DoPruneExhaustedPathsList(g1) ELSE g1
           saving == /\ Top.num_steps_taken % checkpoint_interval = 0
                     /\ DoSaveProceeds(checkpoint_path, since_last_save)
           g3 == IF saving THEN DoPruneExhaustedPathsList(g2) ELSE g2
           data == SaveData(solutions, g3.ep, total_paths_exhausted_num')
       IN  /\ exhausted_paths' = g3.ep
           /\ paths_length_at_last_prune' = g3.plen
           /\ prune_input' = IF saving /\ Truthy(g2.ep) THEN g2.ep
                             ELSE IF over THEN g1.ep
                             ELSE None
           /\ IF saving
              THEN /\ backup_file' = IF checkpoint_file.kind # "absent"
                                     THEN checkpoint_file.kind ELSE backup_file
                   /\ IF written
                      THEN /\ checkpoint_file' = Complete(data)
                           /\ at_save' = [solutions |-> solutions,
                                          exhausted_paths |-> g3.ep,
                                          num_exhausted |->
                                            total_paths_exhausted_num + 1]
                           /\ save_completed' = TRUE
                           /\ since_last_save' = 0
                           /\ stack' = Popped
                           /\ UNCHANGED <<phase, save_failed>>
                      ELSE /\ checkpoint_file' = Partial
                           /\ phase' = RaiseFrom(stack).phase
                           /\ stack' = RaiseFrom(stack).stack
                           /\ save_failed' = TRUE
                           /\ UNCHANGED <<at_save, save_completed,
                                          since_last_save>>
              ELSE /\ stack' = Popped
                   /\ UNCHANGED <<disk, phase, at_save, save_completed,
                                  since_last_save, save_failed>>
  /\ UNCHANGED <<config, solutions, next_start, steps_taken, emitted, restarts,
                 load_status, reference>>

(***************************************************************************)
(* The process ends (it finished, failed, or was stopped: termination is   *)
(* the only cancellation) and a fresh process is started on the same input *)
(* with the same settings.  Its globals are the module defaults again, and *)
(* do_load_progress (lines 308-326) reads the checkpoint file: a complete  *)
(* file replaces solutions, exhausted_paths and the counter; a missing     *)
(* file raises an IOError, which is caught, and the run starts from        *)
(* scratch; a partial file raises either an error the handler catches      *)
(* (pickle.UnpicklingError, OSError) or one it does not (EOFError), which  *)
(* ends the process.                                                       *)
(***************************************************************************)
Restart ==
  /\ checkpoint_path # None
  /\ restarts < MaxRestarts
  /\ restarts' = restarts + 1
  /\ next_start' = 0
  /\ steps_taken' = <<>>
  /\ stack' = <<>>
  /\ emitted' = <<>>
  /\ paths_length_at_last_prune' = 0
  /\ since_last_save' = 0
  /\ save_failed' = FALSE
  /\ prune_input' = None
  /\ \E caught \in BOOLEAN :
       CASE checkpoint_file.kind = "complete" ->
              /\ solutions' = checkpoint_file.data.solutions
              /\ exhausted_paths' = checkpoint_file.data.exhausted_paths
              /\ total_paths_exhausted_num' = checkpoint_file.data.num_exhausted
              /\ load_status' = "ok"
              /\ phase' = "ready"
              /\ UNCHANGED at_save
         [] checkpoint_file.kind = "absent" \/ caught ->
              /\ solutions' = {}
              /\ exhausted_paths' = IF track THEN Some({}) ELSE None
              /\ total_paths_exhausted_num' = 0
              /\ load_status' = "failed"
              /\ phase' = "ready"
              /\ at_save' = NoData
         [] OTHER ->
              /\ solutions' = {}
              /\ exhausted_paths' = IF track THEN Some({}) ELSE None
              /\ total_paths_exhausted_num' = 0
              /\ load_status' = "failed"
              /\ phase' = "crashed"
              /\ at_save' = NoData
  /\ UNCHANGED <<config, disk, save_completed, reference>>

\* time passes.  The clock is read only at line 287, by a process with a
\* checkpoint path, and only compared with min_save_interval.
Tick ==
  /\ checkpoint_path # None
  /\ phase = "running"
  /\ since_last_save < MinSaveInterval
  /\ since_last_save' = since_last_save + 1
  /\ UNCHANGED <<config, globals, phase, next_start, steps_taken, stack, disk,
                 emitted, restarts, load_status, at_save, save_completed,
                 prune_input, save_failed, reference>>

Next ==
  \/ SolveNextStart
  \/ Emit
  \/ Descend
  \/ SkipPruned
  \/ Backtrack
  \/ Return
  \/ DeadEnd
  \/ Finish
  \/ Restart
  \/ Tick

Spec == Init /\ [][Next]_vars

\* the same program on every graph that passes validation
InitValidated == \E g \in ValidatedGraphs : InitRun(g.p2n, g.n2p)

SpecValidated == InitValidated /\ [][Next]_vars

\* the enumeration of one process, which the for loop of its caller (line
\* 448) advances until the generator is exhausted or raises: one thread,
\* no step waits for anything, time passes meanwhile
NextSearch ==
  \/ SolveNextStart
  \/ Emit
  \/ Descend
  \/ SkipPruned
  \/ Backtrack
  \/ Return
  \/ DeadEnd
  \/ Finish
  \/ Tick

Advance ==
  SolveNextStart \/ Emit \/ Descend \/ SkipPruned \/ Backtrack \/ Return
    \/ DeadEnd \/ Finish

\* every well-formed graph and start list, with a save considered at every
\* dead end and the largest threshold
InitFair ==
  \E p2n \in WellFormedEdgeMaps :
     InitConfigured(p2n, Incidence(p2n), StartLists(Incidence(p2n)),
                    {MaxThreshold}, {1})

SpecFair == InitFair /\ [][NextSearch]_vars /\ WF_vars(Advance)

\* the sample maps, each searched from one start node (solve_from), with
\* the default prune threshold and, where a checkpoint is configured, a
\* save considered at the dead ends of every SampleInterval-th level
SampleInterval == 4

SingleStarts(n2p) == {<<n>> : n \in DOMAIN n2p}

InitSamples ==
  \E g \in SampleMaps :
     InitConfigured(g.paths_ret, g.nodes_ret, SingleStarts(g.nodes_ret),
                    {DefaultPruneThreshold}, {SampleInterval})

SpecSamples == InitSamples /\ [][Next]_vars

(***************************************************************************)
(* The calls that check and normalize the caller's maps.                   *)
(***************************************************************************)
\* the process before the maps are checked: the module globals as
\* imported, no checkpoint configured
InitInput ==
  /\ \E args \in SmallArguments \cup ManyEdges(MaxManyEdges),
        raise_error \in BOOLEAN :
        input = Some([paths_to_nodes |-> args.paths_to_nodes,
                      nodes_to_paths |-> args.nodes_to_paths,
                      raise_error |-> raise_error])
  /\ outcome = "none"
  /\ translation = None
  /\ ClockUnread
  /\ phase = "input"
  /\ paths_to_nodes = <<>>
  /\ nodes_to_paths = <<>>
  /\ starts_from = <<>>
  /\ track = FALSE
  /\ exhausted_paths_prune_threshold = DefaultPruneThreshold
  /\ checkpoint_path = None
  /\ checkpoint_interval = DefaultCheckpointInterval
  /\ solutions = {}
  /\ exhausted_paths = None
  /\ paths_length_at_last_prune = 0
  /\ total_paths_exhausted_num = 0
  /\ next_start = 0
  /\ steps_taken = <<>>
  /\ stack = <<>>
  /\ checkpoint_file = Absent
  /\ backup_file = "absent"
  /\ since_last_save = 0
  /\ save_failed = FALSE
  /\ emitted = <<>>
  /\ restarts = 0
  /\ load_status = "none"
  /\ at_save = NoData
  /\ save_completed = FALSE
  /\ prune_input = None
  /\ reference = None

\* _sanity_check_dicts(paths_to_nodes, nodes_to_paths, raise_error), called
\* on its own: it returns (True, None) or (False, error), or raises
SanityCheckDictsCall ==
  /\ phase = "input"
  /\ outcome' = SanityCheckOutcome(input[1].paths_to_nodes,
                                   input[1].nodes_to_paths,
                                   input[1].raise_error)
  /\ phase' = IF outcome' = "ValueError" THEN "crashed" ELSE "checked"
  /\ UNCHANGED <<paths_to_nodes, nodes_to_paths, starts_from, track,
                 exhausted_paths_prune_threshold, checkpoint_interval,
                 checkpoint_path, input, translation, clock, globals, next_start,
                 steps_taken,
                 stack, disk, since_last_save, emitted, restarts,
                 load_status, at_save, save_completed, prune_input,
                 save_failed, reference>>

\* normalize_dicts(paths_to_nodes, nodes_to_paths, raise_error): on success
\* the caller holds the integer maps and may begin a search from a node
NormalizeDictsCall ==
  /\ phase = "input"
  /\ outcome' = NormalizeOutcome(input[1].paths_to_nodes,
                                 input[1].nodes_to_paths,
                                 input[1].raise_error)
  /\ IF outcome' = "normalized"
     THEN \E path_keys \in KeyOrders(DOMAIN input[1].paths_to_nodes.items),
             node_keys \in KeyOrders(DOMAIN input[1].nodes_to_paths.items) :
            LET ret == NormalizeDictsItems(Plain(input[1].paths_to_nodes),
                                           Plain(input[1].nodes_to_paths),
                                           path_keys, node_keys)
            IN  /\ paths_to_nodes' = ret.paths_ret
                /\ nodes_to_paths' = ret.nodes_ret
                /\ translation' =
                      Some([paths_x |-> ret.paths_x,
                            nodes_x |-> ret.nodes_x,
                            paths_x_rev |-> ret.paths_x_rev,
                            nodes_x_rev |-> ret.nodes_x_rev])
                /\ starts_from' \in
                      IF ret.nodes_ret = <<>> THEN {<<>>}
                      ELSE SingleStarts(ret.nodes_ret)
                /\ phase' = "ready"
     ELSE /\ phase' = IF outcome' = "SystemExit" THEN "exited" ELSE "crashed"
          /\ UNCHANGED <<paths_to_nodes, nodes_to_paths, starts_from,
                         translation>>
  /\ UNCHANGED <<track, exhausted_paths_prune_threshold, checkpoint_interval,
                 checkpoint_path, input, clock, globals, next_start,
                 steps_taken,
                 stack, disk, since_last_save, emitted, restarts,
                 load_status, at_save, save_completed, prune_input,
                 save_failed, reference>>

NextInput == SanityCheckDictsCall \/ NormalizeDictsCall

SpecInput == InitInput /\ [][NextInput]_vars


(***************************************************************************)
(* The calls that check an adjacency argument and turn it into the two     *)
(* maps, which print_all_graph_solutions then hands to normalize_dicts.    *)
(***************************************************************************)
\* the two dicts as values a caller holds
AsArguments(dicts) ==
  [paths_to_nodes |->
     DictOf([path \in DOMAIN dicts.paths_to_nodes |->
               TupleOf(dicts.paths_to_nodes[path])]),
   nodes_to_paths |->
     DictOf([node \in DOMAIN dicts.nodes_to_paths |->
               TupleOf(dicts.nodes_to_paths[node])])]

\* the process before the adjacency argument is checked: every small
\* adjacency argument, well formed or not
InitGraph ==
  /\ \E raise_error \in BOOLEAN :
        \/ \E keys \in SUBSET GraphNodeLabels :
              \E f \in [keys -> GraphDestLists] :
                 input = Some([graph |-> DictOf(f), raise_error |-> raise_error])
        \/ \E graph \in NotDictGraphs :
              input = Some([graph |-> graph, raise_error |-> raise_error])
  /\ outcome = "none"
  /\ translation = None
  /\ ClockUnread
  /\ phase = "graph"
  /\ paths_to_nodes = <<>>
  /\ nodes_to_paths = <<>>
  /\ starts_from = <<>>
  /\ track = FALSE
  /\ exhausted_paths_prune_threshold = DefaultPruneThreshold
  /\ checkpoint_path = None
  /\ checkpoint_interval = DefaultCheckpointInterval
  /\ solutions = {}
  /\ exhausted_paths = None
  /\ paths_length_at_last_prune = 0
  /\ total_paths_exhausted_num = 0
  /\ next_start = 0
  /\ steps_taken = <<>>
  /\ stack = <<>>
  /\ checkpoint_file = Absent
  /\ backup_file = "absent"
  /\ since_last_save = 0
  /\ save_failed = FALSE
  /\ emitted = <<>>
  /\ restarts = 0
  /\ load_status = "none"
  /\ at_save = NoData
  /\ save_completed = FALSE
  /\ prune_input = None
  /\ reference = None

\* _sanity_check_graph(graph, raise_error), called on its own: it returns
\* (True, None) or (False, error), or raises
SanityCheckGraphCall ==
  /\ phase = "graph"
  /\ outcome' = SanityCheckGraphOutcome(input[1].graph, input[1].raise_error)
  /\ phase' = IF outcome' = "ValueError" THEN "crashed" ELSE "graph checked"
  /\ UNCHANGED <<paths_to_nodes, nodes_to_paths, starts_from, track,
                 exhausted_paths_prune_threshold, checkpoint_interval,
                 checkpoint_path, input, translation, clock, globals, next_start,
                 steps_taken,
                 stack, disk, since_last_save, emitted, restarts,
                 load_status, at_save, save_completed, prune_input,
                 save_failed, reference>>

\* graph_to_dicts(graph) as print_all_graph_solutions calls it: the two
\* dicts it returns are the arguments of the default normalize_dicts call
GraphToDictsCall ==
  /\ phase = "graph"
  /\ outcome' = GraphToDictsOutcome(input[1].graph)
  /\ IF outcome' = "converted"
     THEN LET args == AsArguments(GraphToDicts(Plain(input[1].graph)))
          IN  /\ input' = Some([graph |-> input[1].graph,
                                paths_to_nodes |-> args.paths_to_nodes,
                                nodes_to_paths |-> args.nodes_to_paths,
                                raise_error |-> TRUE])
              /\ phase' = "input"
     ELSE /\ phase' = "crashed"
          /\ UNCHANGED input
  /\ UNCHANGED <<paths_to_nodes, nodes_to_paths, starts_from, track,
                 exhausted_paths_prune_threshold, checkpoint_interval,
                 checkpoint_path, translation, clock, globals, next_start,
                 steps_taken,
                 stack, disk, since_last_save, emitted, restarts,
                 load_status, at_save, save_completed, prune_input,
                 save_failed, reference>>

NextGraph == SanityCheckGraphCall \/ GraphToDictsCall \/ NormalizeDictsCall

SpecGraph == InitGraph /\ [][NextGraph]_vars

(***************************************************************************)
(* print_all_dict_solutions: the maps are normalized and searched from     *)
(* every node, in the order of the keys of the normalized node map.  A     *)
(* dict keeps its keys in the order of insertion, so that order is the     *)
(* order in which the caller's dict lists its nodes.                       *)
(***************************************************************************)
\* lines 193-194 and 433: the keys of nodes_ret as solve_from_all iterates
\* over them, which is the order the loop of line 193 inserted them in
KeysAsInserted(keys, key_ids) == [i \in DOMAIN keys |-> key_ids[keys[i]]]

\* a well-formed map given by the caller as two dicts of integer labels
LabelledArgs(p2n) ==
  ArgsOf([e \in {IntLabel(k) : k \in DOMAIN p2n} |-> IntLabels(p2n[e[1]])])

InitOrdered ==
  /\ \E p2n \in WellFormedEdgeMaps :
        input = Some([paths_to_nodes |-> LabelledArgs(p2n).paths_to_nodes,
                      nodes_to_paths |-> LabelledArgs(p2n).nodes_to_paths,
                      raise_error |-> TRUE])
  /\ outcome = "none"
  /\ translation = None
  /\ ClockUnread
  /\ phase = "input"
  /\ paths_to_nodes = <<>>
  /\ nodes_to_paths = <<>>
  /\ starts_from = <<>>
  /\ track \in BOOLEAN
  /\ exhausted_paths_prune_threshold = DefaultPruneThreshold
  /\ checkpoint_path = None
  /\ checkpoint_interval = DefaultCheckpointInterval
  /\ solutions = {}
  /\ exhausted_paths = IF track THEN Some({}) ELSE None
  /\ paths_length_at_last_prune = 0
  /\ total_paths_exhausted_num = 0
  /\ next_start = 0
  /\ steps_taken = <<>>
  /\ stack = <<>>
  /\ checkpoint_file = Absent
  /\ backup_file = "absent"
  /\ since_last_save = 0
  /\ save_failed = FALSE
  /\ emitted = <<>>
  /\ restarts = 0
  /\ load_status = "none"
  /\ at_save = NoData
  /\ save_completed = FALSE
  /\ prune_input = None
  /\ reference = None

\* print_all_dict_solutions(paths_to_nodes, nodes_to_paths) up to the call
\* of solve_from_all (lines 444-448)
PrintAllDictSolutionsCall ==
  /\ phase = "input"
  /\ outcome' = NormalizeOutcome(input[1].paths_to_nodes,
                                 input[1].nodes_to_paths,
                                 input[1].raise_error)
  /\ IF outcome' = "normalized"
     THEN \E path_keys \in KeyOrders(DOMAIN input[1].paths_to_nodes.items),
             node_keys \in KeyOrders(DOMAIN input[1].nodes_to_paths.items) :
            LET ret == NormalizeDictsItems(Plain(input[1].paths_to_nodes),
                                           Plain(input[1].nodes_to_paths),
                                           path_keys, node_keys)
            IN  /\ paths_to_nodes' = ret.paths_ret
                /\ nodes_to_paths' = ret.nodes_ret
                /\ translation' =
                      Some([paths_x |-> ret.paths_x,
                            nodes_x |-> ret.nodes_x,
                            paths_x_rev |-> ret.paths_x_rev,
                            nodes_x_rev |-> ret.nodes_x_rev])
                /\ starts_from' = KeysAsInserted(node_keys, ret.nodes_x_rev)
                /\ phase' = "ready"
     ELSE /\ phase' = IF outcome' = "SystemExit" THEN "exited" ELSE "crashed"
          /\ UNCHANGED <<paths_to_nodes, nodes_to_paths, starts_from,
                         translation>>
  /\ UNCHANGED <<track, exhausted_paths_prune_threshold, checkpoint_interval,
                 checkpoint_path, input, clock, globals, next_start,
                 steps_taken,
                 stack, disk, since_last_save, emitted, restarts,
                 load_status, at_save, save_completed, prune_input,
                 save_failed, reference>>

NextOrdered ==
  \/ PrintAllDictSolutionsCall
  \/ SolveNextStart
  \/ Emit
  \/ Descend
  \/ SkipPruned
  \/ Backtrack
  \/ Return
  \/ DeadEnd
  \/ Finish

SpecOrdered == InitOrdered /\ [][NextOrdered]_vars

(***************************************************************************)
(* The calls of do_save and do_load_progress on their own, with the clock  *)
(* they read.  A process is started with a checkpoint path or without,     *)
(* holding some solutions and exhausted prefixes; time passes; do_save is  *)
(* called at any moment; the process ends and a new one is started,        *)
(* which calls do_load_progress.  time.monotonic() has an undefined        *)
(* reference point, so the clock of a new process is any value.            *)
(***************************************************************************)
MaxNow == 3

MaxLoads == 2

\* line 322 without the subtraction
RunStartAtLoad(clock_now, loaded_total) == clock_now

\* line 322: run_start = time.monotonic() - data['total_time']
RunStartAfterLoad(clock_now, loaded_total) == clock_now - loaded_total

\* lines 292-297: the 'total_time' entry of the dictionary do_save pickles
TotalTime(clock_now, start) == clock_now - start

InitClock ==
  /\ input = None
  /\ outcome = "none"
  /\ translation = None
  /\ now \in 0..1
  /\ run_start = now
  /\ total_time = None
  /\ loaded_time = None
  /\ phase = "timing"
  /\ paths_to_nodes = <<>>
  /\ nodes_to_paths = <<>>
  /\ starts_from = <<>>
  /\ track \in BOOLEAN
  /\ exhausted_paths_prune_threshold = DefaultPruneThreshold
  /\ checkpoint_path \in {None, Some(CheckpointName)}
  /\ checkpoint_interval = DefaultCheckpointInterval
  /\ solutions \in {{}, {<<2, 1>>}}
  /\ exhausted_paths \in IF track THEN {Some({}), Some({<<1>>, <<1, 2>>})}
                         ELSE {None}
  /\ paths_length_at_last_prune = 0
  /\ total_paths_exhausted_num =
       IF Truthy(exhausted_paths) THEN Cardinality(exhausted_paths[1]) ELSE 0
  /\ next_start = 0
  /\ steps_taken = <<>>
  /\ stack = <<>>
  /\ checkpoint_file = Absent
  /\ backup_file = "absent"
  /\ since_last_save = 0
  /\ save_failed = FALSE
  /\ emitted = <<>>
  /\ restarts = 0
  /\ load_status = "none"
  /\ at_save = NoData
  /\ save_completed = FALSE
  /\ prune_input = None
  /\ reference = None

\* time passes in the running process
ClockTick ==
  /\ phase = "timing"
  /\ now < MaxNow
  /\ now' = now + 1
  /\ since_last_save' = IF since_last_save < MinSaveInterval
                        THEN since_last_save + 1 ELSE since_last_save
  /\ UNCHANGED <<paths_to_nodes, nodes_to_paths, starts_from, track,
                 exhausted_paths_prune_threshold, checkpoint_interval,
                 checkpoint_path, input, outcome, translation, run_start,
                 total_time, loaded_time, globals, phase, next_start,
                 steps_taken, stack, disk, emitted, restarts, load_status,
                 at_save, save_completed, prune_input, save_failed, reference>>

\* do_save() (lines 279-305)
DoSaveCall ==
  /\ phase = "timing"
  /\ IF ~DoSaveProceeds(checkpoint_path, since_last_save)
     THEN UNCHANGED <<exhausted_paths, paths_length_at_last_prune, disk,
                      total_time, phase, at_save, save_completed,
                      since_last_save, save_failed, prune_input>>
     ELSE \E written \in BOOLEAN :
            LET g == DoPruneExhaustedPathsList(
                       [ep |-> exhausted_paths,
                        plen |-> paths_length_at_last_prune])
                data == SaveData(solutions, g.ep, total_paths_exhausted_num)
            IN  /\ exhausted_paths' = g.ep
                /\ paths_length_at_last_prune' = g.plen
                /\ prune_input' = IF Truthy(exhausted_paths)
                                  THEN exhausted_paths ELSE None
                /\ backup_file' = IF checkpoint_file.kind # "absent"
                                  THEN checkpoint_file.kind ELSE backup_file
                /\ IF written
                   THEN /\ checkpoint_file' = Complete(data)
                        /\ total_time' = Some(TotalTime(now, run_start))
                        /\ at_save' = data
                        /\ save_completed' = TRUE
                        /\ since_last_save' = 0
                        /\ UNCHANGED <<phase, save_failed>>
                   ELSE /\ checkpoint_file' = Partial
                        /\ total_time' = None
                        /\ phase' = "crashed"
                        /\ save_failed' = TRUE
                        /\ UNCHANGED <<at_save, save_completed,
                                       since_last_save>>
  /\ UNCHANGED <<paths_to_nodes, nodes_to_paths, starts_from, track,
                 exhausted_paths_prune_threshold, checkpoint_interval,
                 checkpoint_path, input, outcome, translation, now, run_start,
                 loaded_time, solutions, total_paths_exhausted_num,
                 next_start, steps_taken, stack, emitted, restarts,
                 load_status, reference>>

\* a new process: the module is imported (lines 60-84), then
\* do_load_progress() is called (lines 308-326)
DoLoadProgressCall ==
  /\ phase \in {"timing", "crashed"}
  /\ checkpoint_path # None
  /\ restarts < MaxLoads
  /\ restarts' = restarts + 1
  /\ paths_length_at_last_prune' = 0
  /\ since_last_save' = 0
  /\ save_failed' = FALSE
  /\ prune_input' = None
  /\ \E clock_now \in 0..MaxNow, caught \in BOOLEAN :
       /\ now' = clock_now
       /\ CASE checkpoint_file.kind = "complete" ->
                 /\ solutions' = checkpoint_file.data.solutions
                 /\ exhausted_paths' = checkpoint_file.data.exhausted_paths
                 /\ total_paths_exhausted_num' =
                      checkpoint_file.data.num_exhausted
                 /\ run_start' = RunStartAfterLoad(clock_now, total_time[1])
                 /\ loaded_time' = Some([at |-> clock_now,
                                         total |-> total_time[1]])
                 /\ load_status' = "ok"
                 /\ phase' = "timing"
                 /\ UNCHANGED at_save
            [] checkpoint_file.kind = "absent" \/ caught ->
                 /\ solutions' = {}
                 /\ exhausted_paths' = IF track THEN Some({}) ELSE None
                 /\ total_paths_exhausted_num' = 0
                 /\ run_start' = clock_now
                 /\ loaded_time' = None
                 /\ load_status' = "failed"
                 /\ phase' = "timing"
                 /\ at_save' = NoData
            [] OTHER ->
                 /\ solutions' = {}
                 /\ exhausted_paths' = IF track THEN Some({}) ELSE None
                 /\ total_paths_exhausted_num' = 0
                 /\ run_start' = clock_now
                 /\ loaded_time' = None
                 /\ load_status' = "failed"
                 /\ phase' = "crashed"
                 /\ at_save' = NoData
  /\ UNCHANGED <<paths_to_nodes, nodes_to_paths, starts_from, track,
                 exhausted_paths_prune_threshold, checkpoint_interval,
                 checkpoint_path, input, outcome, translation, total_time,
                 next_start, steps_taken, stack, disk, emitted,
                 save_completed, reference>>

NextClock == ClockTick \/ DoSaveCall \/ DoLoadProgressCall

SpecClock == InitClock /\ [][NextClock]_vars


(***************************************************************************)
(* Reference notions the properties are stated with.  They read the edge   *)
(* endpoints only, never the node -> edges map the enumerator walks by.    *)
(***************************************************************************)
Endpoints(e) == Range(paths_to_nodes[e])

\* the node reached from s after the first k edges of t, or 0 when some
\* edge among them does not leave the node reached before it
RECURSIVE NodeAfter(_, _, _)
NodeAfter(s, t, k) ==
  IF k = 0 THEN s
  ELSE LET prev == NodeAfter(s, t, k - 1)
           ends == paths_to_nodes[t[k]]
       IN  IF prev = 0 THEN 0
           ELSE IF ends[1] = prev THEN ends[2]
           ELSE IF ends[2] = prev THEN ends[1]
           ELSE 0

IsWalkFrom(s, t) == NodeAfter(s, t, Len(t)) # 0

\* the orderings of all the edges
EdgeOrders ==
  {t \in [1..NumPaths -> 1..NumPaths] : \A i, j \in 1..NumPaths : t[i] = t[j] => i = j}

\* every trail from s that uses each edge exactly once
EulerTrails(s) == {t \in EdgeOrders : IsWalkFrom(s, t)}

EmittedTrails == {emitted[k].trail : k \in DOMAIN emitted}

(***************************************************************************)
(* C1.  On every graph that passes validation and from every start node,   *)
(* each trail the generator yields has as many steps as the graph has      *)
(* edges and holds every edge ID 1..M, hence each exactly once and no      *)
(* zero.                                                                   *)
(***************************************************************************)
C1_EmittedTrailUsesEveryEdgeOnce ==
  \A k \in DOMAIN emitted :
    /\ Len(emitted[k].trail) = NumPaths
    /\ Range(emitted[k].trail) = 1..NumPaths

\* a trail of two edges or more was yielded on a graph that is not well formed
C1_Witness ==
  /\ emitted # <<>>
  /\ NumPaths >= 2
  /\ ~WellFormed(paths_to_nodes, nodes_to_paths)

(***************************************************************************)
(* C2.  A search from one start node on a well-formed graph, begun with    *)
(* the exhausted-prefix set untracked or empty, has yielded when it ends   *)
(* exactly the trails from that node that use each edge once, and each of  *)
(* them once.                                                              *)
(***************************************************************************)
C2_SingleStartIsComplete ==
  (phase = "done" /\ Len(starts_from) = 1 /\ load_status # "ok")
    => /\ EmittedTrails = EulerTrails(starts_from[1])
       /\ \A j, k \in DOMAIN emitted :
            emitted[j].trail = emitted[k].trail => j = k

\* such a search ended after dead ends and with more than one trail
C2_Witness ==
  /\ phase = "done"
  /\ Len(starts_from) = 1
  /\ load_status # "ok"
  /\ Len(emitted) >= 2
  /\ total_paths_exhausted_num >= 1

(***************************************************************************)
(* C3 as claimed.  In every yielded trail two consecutive edges share      *)
(* exactly one endpoint, and the trail is a walk from the start node.      *)
(***************************************************************************)
C3_ConsecutiveEdgesShareExactlyOneEndpoint ==
  \A k \in DOMAIN emitted :
    LET t == emitted[k].trail
    IN  /\ IsWalkFrom(emitted[k].start, t)
        /\ \A i \in 1..(Len(t) - 1) :
             Cardinality(Endpoints(t[i]) \cap Endpoints(t[i + 1])) = 1

(***************************************************************************)
(* C3 as amended.  In every yielded trail two consecutive edges share an   *)
(* endpoint, and exactly one unless the two edges are parallel (connect    *)
(* the same two nodes); the trail is a walk from the start node.           *)
(***************************************************************************)
C3_ConsecutiveEdgesShareAnEndpoint ==
  \A k \in DOMAIN emitted :
    LET t == emitted[k].trail
    IN  /\ IsWalkFrom(emitted[k].start, t)
        /\ \A i \in 1..(Len(t) - 1) :
             LET shared == Endpoints(t[i]) \cap Endpoints(t[i + 1])
             IN  /\ shared # {}
                 /\ Endpoints(t[i]) # Endpoints(t[i + 1])
                      => Cardinality(shared) = 1

\* a trail was yielded in which two consecutive edges are parallel and two
\* others are not
C3_Witness ==
  \E k \in DOMAIN emitted :
    LET t == emitted[k].trail
    IN  /\ \E i \in 1..(Len(t) - 1) : Endpoints(t[i]) = Endpoints(t[i + 1])
        /\ \E i \in 1..(Len(t) - 1) : Endpoints(t[i]) # Endpoints(t[i + 1])


(***************************************************************************)
(* The run of solve_from_multiple in which compaction never happens and no *)
(* checkpoint is written, as a function of the input: _solve_from with the *)
(* globals passed along as st = [ep, sols].                                *)
(***************************************************************************)
RECURSIVE SearchFrom(_, _, _, _), TryEach(_, _, _, _, _, _)
SearchFrom(start_from, path, num_steps_taken, st) ==
  IF num_steps_taken = NumPaths
  THEN [st EXCEPT !.sols = @ \cup {Trimmed(path)},
                  !.out = Append(@, Trimmed(path))]
  ELSE LET next_steps == NextSteps(start_from, path)
       IN  IF next_steps # <<>>
           THEN TryEach(start_from, path, num_steps_taken, next_steps, 1, st)
           ELSE IF st.ep # None
                THEN [st EXCEPT !.ep = Some(@[1] \cup {Trimmed(path)})]
                ELSE st

TryEach(start_from, path, num_steps_taken, next_steps, i, st) ==
  IF i > Len(next_steps) THEN st
  ELSE LET next_path == next_steps[i]
           next_loc == NextLocs(next_path, start_from)[1]
           written == [path EXCEPT ![num_steps_taken + 1] = next_path]
           after == IF ~Truthy(st.ep) \/ ~PathIsPruned(st.ep, written)
                    THEN SearchFrom(next_loc, written, num_steps_taken + 1, st)
                    ELSE st
       IN  TryEach(start_from, path, num_steps_taken, next_steps, i + 1, after)

RECURSIVE SearchEach(_, _, _)
SearchEach(starts, k, st) ==
  IF k > Len(starts) THEN st
  ELSE SearchEach(starts, k + 1, SearchFrom(starts[k], Zeros(NumPaths), 0, st))

UncompactedRunState ==
  SearchEach(starts_from, 1,
             [ep |-> IF track THEN Some({}) ELSE None, sols |-> {},
              out |-> <<>>])

UncompactedRun == UncompactedRunState.sols

\* what a run without the exhausted-prefix set ends with: every trail from
\* one of the start nodes that uses each edge once
AllTrailsFromStarts == UNION {EulerTrails(s) : s \in Range(starts_from)}

\* a run that never tracked the exhausted-prefix set ends with exactly those
UntrackedRunFindsAllTrails ==
  (phase = "done" /\ ~track) => solutions = AllTrailsFromStarts

(***************************************************************************)
(* C4.  A run that tracks the exhausted-prefix set, begun with the empty   *)
(* set, ends with the solution set of the run that does not track it, in   *)
(* every driving mode.                                                     *)
(***************************************************************************)
C4_TrackingKeepsTheSolutionSet ==
  (phase = "done" /\ track /\ restarts = 0) => solutions = AllTrailsFromStarts

(***************************************************************************)
(* C5.  A process that loaded a checkpoint and enumerated to the end holds *)
(* the solution set that the uninterrupted enumeration, begun with empty   *)
(* state on the same input, ended with.                                    *)
(***************************************************************************)
C5_ResumedRunEndsLikeFullRun ==
  (phase = "done" /\ load_status = "ok" /\ reference # None)
    => solutions = reference[1]

\* a resumed run over two start nodes ended with solutions, after skipping
\* a prefix the checkpoint recorded
C5_Witness ==
  /\ phase = "done"
  /\ load_status = "ok"
  /\ reference # None
  /\ solutions # {}
  /\ Len(starts_from) = 2
  /\ Truthy(exhausted_paths)
  /\ Len(emitted) < Cardinality(solutions)

(***************************************************************************)
(* C6.  No member of the exhausted-prefix set is ever a prefix of a trail  *)
(* that uses each edge once from one of the start nodes of the run.        *)
(***************************************************************************)
C6_ExhaustedPrefixesAreDead ==
  exhausted_paths # None =>
    \A q \in exhausted_paths[1] :
      \A t \in AllTrailsFromStarts : ~IsPrefix(q, t)

CompactionRemoved ==
  /\ prune_input # None
  /\ exhausted_paths # prune_input

C8_CompactionLeavesMinimalSet ==
  prune_input # None =>
    LET before == prune_input[1]
        kept == exhausted_paths[1]
    IN  /\ kept \subseteq before
        /\ \A q \in kept : \A r \in kept : ~IsProperPrefix(r, q)
        /\ \A q \in before \ kept : \E r \in kept : IsProperPrefix(r, q)

\* a compaction removed a member
C8_Witness == CompactionRemoved

(***************************************************************************)
(* C9.  A fresh process that loaded the checkpoint file holds the solution *)
(* set, the exhausted-prefix set (as compacted before the save) and the    *)
(* dead-end counter that the saving process held when its save completed.  *)
(***************************************************************************)
C9_LoadRestoresWhatWasSaved ==
  (phase = "ready" /\ load_status = "ok")
    => /\ solutions = at_save.solutions
       /\ exhausted_paths = at_save.exhausted_paths
       /\ total_paths_exhausted_num = at_save.num_exhausted

\* a process loaded a checkpoint that holds solutions and exhausted prefixes
C9_Witness ==
  /\ phase = "ready"
  /\ load_status = "ok"
  /\ solutions # {}
  /\ Truthy(exhausted_paths)
  /\ total_paths_exhausted_num > 0

(***************************************************************************)
(* C10.  Once a save has completed, a completely written checkpoint is on  *)
(* disk at the checkpoint path or at the backup name, whatever saves,      *)
(* failed writes and restarts follow.                                      *)
(***************************************************************************)
C10_CompleteCheckpointSurvives ==
  save_completed => (checkpoint_file.kind = "complete" \/ backup_file = "complete")

(***************************************************************************)
(* C11.  When a checkpoint path is configured and do_load_progress fails,  *)
(* whatever the reason, the process is not ended by it: it is ready to     *)
(* enumerate, with no solutions, an empty exhausted-prefix set when the    *)
(* set is tracked, and a dead-end counter of zero.                         *)
(***************************************************************************)
C11_FailedLoadStartsEmpty ==
  (load_status = "failed" /\ next_start = 0)
    => /\ phase = "ready"
       /\ solutions = {}
       /\ exhausted_paths = (IF track THEN Some({}) ELSE None)
       /\ total_paths_exhausted_num = 0

\* the search stands at a dead end: a call was just entered with fewer steps
\* taken than there are edges, at a node all of whose edges were taken
AtDeadEnd ==
  /\ phase = "running"
  /\ stack # <<>>
  /\ ~Top.called
  /\ Top.i = 1
  /\ Top.num_steps_taken < NumPaths
  /\ NextSteps(Top.start_from, steps_taken) = <<>>

\* a step in which do_save renamed or wrote a file
SaveWrites ==
  /\ restarts' = restarts
  /\ \/ disk' # disk
     \/ save_failed' # save_failed
     \/ since_last_save' < since_last_save

(***************************************************************************)
(* C12.  A step of the enumeration renames or writes a checkpoint file     *)
(* only at a dead end whose depth is a multiple of checkpoint_interval,    *)
(* with a checkpoint path configured and at least min_save_interval on the *)
(* clock since the last completed save (which sets the clock back, so two  *)
(* saves are at least that far apart).  Without a checkpoint path no file  *)
(* and no last_save changes, and a dead end leaves the exhausted-prefix    *)
(* set as the insertion and the threshold compaction of lines 386-388      *)
(* made it.                                                                *)
(***************************************************************************)
C12_SavePolicy ==
  [][/\ SaveWrites =>
          /\ checkpoint_path # None
          /\ AtDeadEnd
          /\ Top.num_steps_taken % checkpoint_interval = 0
          /\ since_last_save >= MinSaveInterval
     /\ checkpoint_path = None =>
          /\ UNCHANGED <<disk, since_last_save>>
          /\ (AtDeadEnd /\ track) =>
               LET added == Some(exhausted_paths[1] \cup {Trimmed(steps_taken)})
                   over == Cardinality(added[1]) >
                             exhausted_paths_prune_threshold
                               + paths_length_at_last_prune
               IN  exhausted_paths' =
                     IF over THEN Some(PrunedPathsList(added[1])) ELSE added
    ]_vars

\* a process completed a second save, at depth 2 with checkpoint_interval 2
C12_Witness ==
  /\ restarts = 0
  /\ save_completed
  /\ backup_file = "complete"
  /\ since_last_save = 0
  /\ checkpoint_interval = 2
  /\ phase = "running"

(***************************************************************************)
(* C13.  A save that fails is not handled: with the failure every active   *)
(* _solve_from call is left and the generator chain is over, and the       *)
(* process yields no trail after it.                                       *)
(***************************************************************************)
C13_FailedSaveEndsEnumeration ==
  [][/\ (save_failed' /\ ~save_failed) =>
          (phase' = "crashed" /\ stack' = <<>>)
     /\ (save_failed /\ restarts' = restarts) =>
          (phase' = "crashed" /\ stack' = <<>> /\ emitted' = emitted)
    ]_vars

\* a save failed two calls deep, after a trail had been yielded
C13_Witness ==
  /\ save_failed
  /\ emitted # <<>>
  /\ Len(Trimmed(steps_taken)) >= 2
  /\ phase = "crashed"

\* how many slots the innermost active call found filled when it was
\* entered, counting the slot it filled itself for a call that has come back
\* and that line 381 has yet to clear; 0 when no call is active
EntryDepth ==
  IF stack = <<>> THEN 0
  ELSE Top.num_steps_taken + (IF Top.called THEN 1 ELSE 0)

(***************************************************************************)
(* C14.  Whenever a _solve_from call has been left, by return or by an     *)
(* exception raised in it or below it, the shared buffer holds what it     *)
(* held when that call was entered: the slots that the innermost call     *)
(* still active found empty are zero, and all slots are zero when no call  *)
(* is active.                                                              *)
(***************************************************************************)
C14_BufferRestoredOnEveryExit ==
  steps_taken # <<>> =>
    \A k \in (EntryDepth + 1)..Len(steps_taken) : steps_taken[k] = 0

\* the same for the exits by return only
BufferRestoredOnReturn ==
  (steps_taken # <<>> /\ phase # "crashed") =>
    \A k \in (EntryDepth + 1)..Len(steps_taken) : steps_taken[k] = 0

(***************************************************************************)
(* C15.  A step of the enumeration adds one to the dead-end counter when   *)
(* it ends a call that stood at a dead end, whether the exhausted-prefix   *)
(* set is tracked or not, and leaves the counter alone otherwise.          *)
(***************************************************************************)
C15_CounterCountsDeadEnds ==
  [][restarts' = restarts =>
       total_paths_exhausted_num' =
         IF AtDeadEnd /\ stack' # stack
         THEN total_paths_exhausted_num + 1
         ELSE total_paths_exhausted_num
    ]_vars

\* an untracked run ended having counted dead ends and yielded trails
C15_Witness ==
  /\ phase = "done"
  /\ ~track
  /\ total_paths_exhausted_num >= 2
  /\ emitted # <<>>

(***************************************************************************)
(* The sample maps.                                                        *)
(***************************************************************************)
OnKoenigsberg ==
  /\ paths_to_nodes = KoenigsbergMaps.paths_ret
  /\ nodes_to_paths = KoenigsbergMaps.nodes_ret

OnRing ==
  \E g \in {SquareMaps, HexMaps} :
     paths_to_nodes = g.paths_ret /\ nodes_to_paths = g.nodes_ret

\* s[::-1]
Reverse(s) == [i \in DOMAIN s |-> s[Len(s) + 1 - i]]

C17_RingYieldsTwoTrails ==
  (OnRing /\ phase = "done" /\ load_status # "ok") =>
     /\ Len(emitted) = 2
     /\ \A i \in DOMAIN emitted : Len(emitted[i].trail) = NumPaths
     /\ emitted[1].trail # emitted[2].trail
     /\ emitted[2].trail = Reverse(emitted[1].trail)
     /\ solutions = {emitted[1].trail, emitted[2].trail}

C17_Witness ==
  /\ paths_to_nodes = HexMaps.paths_ret
  /\ phase = "done"
  /\ starts_from = <<3>>
  /\ Len(emitted) = 2
  /\ Len(emitted[1].trail) = 6

(***************************************************************************)
(* The checks of the caller's maps.                                        *)
(***************************************************************************)
\* the two maps of the call, and what a well-formed pair is: every edge
\* names two distinct nodes, each of which lists it, and a node lists only
\* edges that name it
GivenPaths == input[1].paths_to_nodes

GivenNodes == input[1].nodes_to_paths

Accepted == input # None /\ outcome \in {"True", "normalized"}

Rejected == input # None /\ outcome \in {"ValueError", "False", "SystemExit"}

EveryEdgeIsListedByItsTwoNodes(p, n) ==
  \A e \in DOMAIN p.items :
     /\ IsIterable(p.items[e])
     /\ Len(p.items[e].items) = 2
     /\ \A node \in Members(p.items[e]) :
          /\ node \in DOMAIN n.items
          /\ e \in Members(n.items[node])

EveryNodeListsOnlyItsEdges(p, n) ==
  \A node \in DOMAIN n.items :
     \A e \in Members(n.items[node]) :
        /\ e \in DOMAIN p.items
        /\ node \in Members(p.items[e])

WellFormedArgs(p, n) ==
  /\ IsDict(p) /\ IsDict(n)
  /\ \A e \in DOMAIN p.items : p.items[e].kind = "tuple"
  /\ \A node \in DOMAIN n.items : n.items[node].kind = "tuple"
  /\ EveryEdgeIsListedByItsTwoNodes(p, n)
  /\ EveryNodeListsOnlyItsEdges(p, n)
  /\ \A e \in DOMAIN p.items : Cardinality(Members(p.items[e])) = 2

\* C18: a well-formed map with exactly 255 edges is accepted by
\* _sanity_check_dicts and by normalize_dicts; a map with 256 or more edges
\* is rejected with an error, and no search can begin after it.
C18_CapacityBoundary ==
  (input # None /\ outcome # "none" /\ IsDict(GivenPaths)) =>
     /\ ( /\ WellFormedArgs(GivenPaths, GivenNodes)
          /\ Cardinality(DOMAIN GivenPaths.items) = MaxPaths ) => Accepted
     /\ Cardinality(DOMAIN GivenPaths.items) > MaxPaths =>
          (Rejected /\ phase # "ready" /\ ~ENABLED SolveNextStart)

\* the same boundary for maps with no more nodes than normalize_dicts has
\* node IDs
CapacityBoundaryWithinNodeIDs ==
  (input # None /\ outcome # "none" /\ IsDict(GivenPaths) /\ IsDict(GivenNodes)
     /\ Cardinality(DOMAIN GivenNodes.items) <= MaxIDs)
    => C18_CapacityBoundary

\* the check of the edge count alone, in _sanity_check_dicts
CapacityBoundaryOfTheCheck ==
  (input # None /\ outcome \in {"True", "False", "ValueError"}
     /\ phase \in {"checked", "crashed"} /\ IsDict(GivenPaths))
    => C18_CapacityBoundary

\* C19: validation accepts a pair of maps only if every edge names exactly
\* two nodes, each of which lists that edge, and every node lists only
\* edges that name it.
C19_ValidationRejectsBadIncidence ==
  Accepted => /\ EveryEdgeIsListedByItsTwoNodes(GivenPaths, GivenNodes)
              /\ EveryNodeListsOnlyItsEdges(GivenPaths, GivenNodes)

\* the part of C19 the checks do enforce: two endpoints per edge, every
\* name used is a key of the other map
ValidationChecksNamesOnly ==
  Accepted =>
     /\ \A e \in DOMAIN GivenPaths.items :
          /\ Len(GivenPaths.items[e].items) = 2
          /\ Members(GivenPaths.items[e]) \subseteq DOMAIN GivenNodes.items
     /\ \A node \in DOMAIN GivenNodes.items :
          Members(GivenNodes.items[node]) \subseteq DOMAIN GivenPaths.items

\* the conditions under which _sanity_check_dicts is to raise
NotBothDicts == ~IsDict(GivenPaths) \/ ~IsDict(GivenNodes)

EdgeKeyInNoEdgeList ==
  \E e \in DOMAIN GivenPaths.items :
     \A node \in DOMAIN GivenNodes.items : e \notin Members(GivenNodes.items[node])

NodeKeyInNoEndpointList ==
  \E node \in DOMAIN GivenNodes.items :
     \A e \in DOMAIN GivenPaths.items : node \notin Members(GivenPaths.items[e])

EndpointIsNoNodeKey ==
  \E e \in DOMAIN GivenPaths.items :
     \E node \in Members(GivenPaths.items[e]) : node \notin DOMAIN GivenNodes.items

EdgeListNotIterable ==
  \E node \in DOMAIN GivenNodes.items : ~IsIterable(GivenNodes.items[node])

ListedEdgeIsNoEdgeKey ==
  \E node \in DOMAIN GivenNodes.items :
     \E e \in Members(GivenNodes.items[node]) : e \notin DOMAIN GivenPaths.items

MustRaise ==
  \/ NotBothDicts
  \/ /\ ~NotBothDicts
     /\ \/ EdgeKeyInNoEdgeList \/ NodeKeyInNoEndpointList
        \/ EndpointIsNoNodeKey \/ EdgeListNotIterable \/ ListedEdgeIsNoEdgeKey

AfterSanityCheckRaising ==
  /\ input # None
  /\ input[1].raise_error
  /\ phase \in {"checked", "crashed"}
  /\ outcome \in {"True", "ValueError"}

\* C20: _sanity_check_dicts with raise_error=True raises ValueError
\* whenever an argument is no dict, an edge key is in no node's edge list,
\* a node key is in no edge's endpoint list, an endpoint is no node key, a
\* node's edge list is not iterable, or a listed edge is no edge key; it
\* returns (True, None) only when none of these is the case.
C20_SanityCheckRaises ==
  AfterSanityCheckRaising =>
     /\ MustRaise => outcome = "ValueError"
     /\ outcome = "True" => ~MustRaise

\* the same for arguments none of whose edge lists is a string
SanityCheckRaisesOnTuples ==
  (AfterSanityCheckRaising /\ ~NotBothDicts
     /\ \A node \in DOMAIN GivenNodes.items : GivenNodes.items[node].kind # "str")
    => C20_SanityCheckRaises


(***************************************************************************)
(* The check of an adjacency argument.                                     *)
(***************************************************************************)
GivenGraph == input[1].graph

\* A lists B but B does not list A
Asymmetric(g) ==
  \E a \in DOMAIN g.items, b \in DOMAIN g.items :
     /\ g.items[a].kind = "tuple"
     /\ b \in Members(g.items[a])
     /\ ~(g.items[b].kind = "tuple" /\ a \in Members(g.items[b]))

\* the adjacency inputs that must be refused
BadAdjacency(g) ==
  \/ ~IsDict(g)
  \/ /\ IsDict(g)
     /\ \/ \E node \in DOMAIN g.items :
             \/ g.items[node].kind = "other"
             \/ g.items[node].kind = "str"
             \/ /\ g.items[node].kind = "tuple"
                /\ \E dest \in Members(g.items[node]) :
                      dest = Unhashable \/ dest \notin DOMAIN g.items
        \/ Asymmetric(g)

\* C21: _sanity_check_graph refuses every adjacency argument that is no
\* dict, that has a destination list which is not iterable or is a string,
\* that has an unhashable destination, that names a destination which is
\* no key, or in which A lists B while B does not list A: it raises
\* ValueError when raise_error is True and returns (False, error) when
\* raise_error is False.
C21_GraphCheckRefuses ==
  [][(SanityCheckGraphCall /\ BadAdjacency(GivenGraph))
       => outcome' = IF input[1].raise_error THEN "ValueError" ELSE "False"]_vars

C21_Witness ==
  /\ phase = "graph checked"
  /\ outcome = "False"
  /\ ~input[1].raise_error
  /\ IsDict(GivenGraph)
  /\ Asymmetric(GivenGraph)
  /\ \A node \in DOMAIN GivenGraph.items :
        /\ GivenGraph.items[node].kind = "tuple"
        /\ Members(GivenGraph.items[node]) \subseteq DOMAIN GivenGraph.items

(***************************************************************************)
(* Self-loops.                                                             *)
(***************************************************************************)
\* an edge of the integer maps whose two endpoints are one node
SelfLoops == {e \in DOMAIN paths_to_nodes :
                paths_to_nodes[e][1] = paths_to_nodes[e][2]}

\* C22: in the integer maps a successful normalize_dicts returns, every
\* edge connects two distinct nodes, so that no map with a self-loop is
\* handed to the enumerator.
C22_NoSelfLoopIsNormalized ==
  (phase = "ready" /\ outcome = "normalized") => SelfLoops = {}

\* the same for an adjacency argument taken through graph_to_dicts first:
\* no node adjacent to itself reaches the enumerator (violated as well)
NoSelfAdjacencyIsNormalized ==
  (phase = "ready" /\ outcome = "normalized"
     /\ "graph" \in DOMAIN input[1]) => SelfLoops = {}

(***************************************************************************)
(* The IDs normalize_dicts assigns.                                        *)
(***************************************************************************)
Normalized == phase = "ready" /\ outcome = "normalized"

Tables == translation[1]

EdgeLabels == DOMAIN GivenPaths.items

NodeLabels == DOMAIN GivenNodes.items

\* the table gives the IDs 1..n to the n labels of S, the k-th smallest
\* label at k
DenseInSortedOrder(table, S) ==
  /\ DOMAIN table = 1..Cardinality(S)
  /\ Range(table) = S
  /\ \A k \in DOMAIN table : k < Len(table) => LabelLess(table[k], table[k + 1])

MutuallyInverse(table, rev) ==
  /\ DOMAIN rev = Range(table)
  /\ \A k \in DOMAIN table : rev[table[k]] = k
  /\ \A l \in DOMAIN rev : table[rev[l]] = l

\* the integer map is the one the labels and what they list determine: at
\* the place of each label in the ascending row of the labels, the places
\* of what it lists, ascending
DeterminedByLabels(map, d, keys, place) ==
  /\ DOMAIN map = DOMAIN keys
  /\ \A k \in DOMAIN keys :
        map[k] = Sorted([i \in DOMAIN d[keys[k]].items |->
                           place[d[keys[k]].items[i]]])

\* C23: normalize_dicts gives the edge labels the IDs 1..M and the node
\* labels the IDs 1..N, the k-th smallest label the ID k; the integer maps
\* and the tables it returns are those the labels and their connections
\* determine, in whatever order the given dicts hold their entries; each
\* reverse table is the inverse of its forward table.
C23_DenseSortedIDs ==
  Normalized =>
    /\ DenseInSortedOrder(Tables.paths_x, EdgeLabels)
    /\ DenseInSortedOrder(Tables.nodes_x, NodeLabels)
    /\ MutuallyInverse(Tables.paths_x, Tables.paths_x_rev)
    /\ MutuallyInverse(Tables.nodes_x, Tables.nodes_x_rev)
    /\ DeterminedByLabels(paths_to_nodes, GivenPaths.items,
                          Tables.paths_x, Tables.nodes_x_rev)
    /\ DeterminedByLabels(nodes_to_paths, GivenNodes.items,
                          Tables.nodes_x, Tables.paths_x_rev)

C23_Witness ==
  /\ Normalized
  /\ Cardinality(EdgeLabels) = 2
  /\ Cardinality(NodeLabels) = 2
  /\ Tables.paths_x = << <<97>>, <<97, 97>> >>
  /\ Tables.nodes_x_rev[<<2>>] = 2
  /\ paths_to_nodes = << <<1, 2>>, <<1, 2>> >>

(***************************************************************************)
(* Normalization and back.                                                 *)
(***************************************************************************)
\* the labels that the forward table gives for a tuple of IDs
BackThrough(table, ids) == [i \in DOMAIN ids |-> table[ids[i]]]

\* two lists hold the same labels, each as often as the other
SameCollection(q, r) == SortedLabelSeq(q) = SortedLabelSeq(r)

\* C24: the integer maps normalize_dicts returns, translated back through
\* the ID-to-label tables, give for every edge of the input the pair of
\* endpoint labels the input gives, and for every node of the input the
\* collection of edge labels the input lists at it.
C24_RoundTrip ==
  Normalized =>
    /\ \A path \in EdgeLabels :
          SameCollection(
            BackThrough(Tables.nodes_x,
                        paths_to_nodes[Tables.paths_x_rev[path]]),
            GivenPaths.items[path].items)
    /\ \A node \in NodeLabels :
          SameCollection(
            BackThrough(Tables.paths_x,
                        nodes_to_paths[Tables.nodes_x_rev[node]]),
            GivenNodes.items[node].items)

C24_Witness ==
  /\ Normalized
  /\ EdgeLabels = {<<97>>, <<97, 97>>}
  /\ GivenPaths.items[<<97>>].items = << <<2>>, <<1>> >>
  /\ GivenPaths.items[<<97, 97>>].items = << <<2>>, <<2>> >>
  /\ GivenNodes.items[<<2>>].items = << <<97, 97>>, <<97>> >>
  /\ paths_to_nodes = << <<1, 2>>, <<2, 2>> >>

(***************************************************************************)
(* An ID for every label.                                                  *)
(***************************************************************************)
\* normalize_dicts was called on arguments that pass _sanity_check_dicts
NormalizeCalledOnCheckedArgs ==
  /\ input # None
  /\ phase \in {"ready", "crashed", "exited"}
  /\ SanityCheckArgs(GivenPaths, GivenNodes)

\* the table is a one-to-one correspondence of the labels S and 1..n
Bijection(table, rev, S) ==
  /\ DOMAIN table = 1..Cardinality(S)
  /\ DOMAIN rev = S
  /\ \A l \in S : table[rev[l]] = l

\* C25: normalize_dicts returns for every input that passes validation,
\* and every node label and edge label of the input then has an ID: the
\* node IDs are a one-to-one correspondence of the node labels and 1..N,
\* also for at most 255 edges over more than 255 nodes.
C25_EveryLabelHasAnID ==
  NormalizeCalledOnCheckedArgs =>
    /\ outcome = "normalized"
    /\ Bijection(Tables.nodes_x, Tables.nodes_x_rev, NodeLabels)
    /\ Bijection(Tables.paths_x, Tables.paths_x_rev, EdgeLabels)

\* the same for inputs with no more nodes than there are IDs
EveryLabelHasAnIDUpToMaxIDs ==
  (NormalizeCalledOnCheckedArgs /\ Cardinality(NodeLabels) <= MaxIDs)
    => C25_EveryLabelHasAnID

(***************************************************************************)
(* The edges synthesized from an adjacency argument.                       *)
(***************************************************************************)
\* graph_to_dicts has returned the two dicts for the given graph
Converted ==
  /\ input # None
  /\ "graph" \in DOMAIN input[1]
  /\ "paths_to_nodes" \in DOMAIN input[1]

\* the unordered pairs of adjacent nodes, the smaller label first
AdjacentPairs(g) ==
  {pair \in (DOMAIN g.items) \X (DOMAIN g.items) :
     /\ pair[1] = pair[2] \/ LabelLess(pair[1], pair[2])
     /\ \/ pair[2] \in Members(g.items[pair[1]])
        \/ pair[1] \in Members(g.items[pair[2]])}

\* the name of the edge between the two nodes of a pair
EdgeNamed(pair) == <<pair[1][1], pair[2][1]>>

\* C26: for an adjacency map that _sanity_check_graph accepts,
\* graph_to_dicts returns one edge for each unordered pair of adjacent
\* nodes and no other edge; the edge is named by the sorted pair of the two
\* node labels and mapped to these two nodes; the edges listed at a node
\* are exactly the synthesized edges that have the node as an endpoint.
C26_OneEdgePerAdjacentPair ==
  Converted =>
    /\ DOMAIN GivenPaths.items =
         {EdgeNamed(pair) : pair \in AdjacentPairs(GivenGraph)}
    /\ Cardinality(DOMAIN GivenPaths.items) =
         Cardinality(AdjacentPairs(GivenGraph))
    /\ \A pair \in AdjacentPairs(GivenGraph) :
          GivenPaths.items[EdgeNamed(pair)] = TupleOf(<<pair[1], pair[2]>>)
    /\ DOMAIN GivenNodes.items = DOMAIN GivenGraph.items
    /\ \A node \in DOMAIN GivenNodes.items :
          /\ GivenNodes.items[node].kind = "tuple"
          /\ Members(GivenNodes.items[node]) =
               {path \in DOMAIN GivenPaths.items :
                  node \in Members(GivenPaths.items[path])}

C26_Witness ==
  /\ Converted
  /\ phase = "input"
  /\ DOMAIN GivenGraph.items = GraphNodeLabels
  /\ Cardinality(AdjacentPairs(GivenGraph)) = 3
  /\ DOMAIN GivenPaths.items = {<<1, 2>>, <<1, 3>>, <<2, 3>>}
  /\ GivenNodes.items[<<2>>] = TupleOf(<< <<1, 2>>, <<2, 3>> >>)

\* an edge list names no edge twice: this does not hold, a destination
\* listed twice at a node gives the node its edge twice (line 232)
EdgeListsHaveNoRepeats ==
  Converted =>
    \A node \in DOMAIN GivenNodes.items :
       Len(GivenNodes.items[node].items) =
         Cardinality(Members(GivenNodes.items[node]))

(***************************************************************************)
(* normalize_dicts on arguments that fail the check.                       *)
(***************************************************************************)
\* normalize_dicts was called on arguments that fail _sanity_check_dicts
NormalizeCalledOnBadArgs ==
  /\ input # None
  /\ phase \in {"ready", "crashed", "exited"}
  /\ ~SanityCheckArgs(GivenPaths, GivenNodes)

\* C27: when the arguments fail the sanity check, normalize_dicts ends the
\* program with exit code 3 and hands no maps to a search, in the default
\* call (raise_error True) as well as with raise_error False.
C27_FailedCheckExitsWithCode3 ==
  NormalizeCalledOnBadArgs =>
    /\ outcome = "SystemExit"
    /\ phase = "exited"
    /\ paths_to_nodes = <<>> /\ nodes_to_paths = <<>>

\* the part that holds in either call: no maps are returned and no search
\* can begin
FailedCheckStartsNoSearch ==
  NormalizeCalledOnBadArgs =>
    /\ phase \in {"exited", "crashed"}
    /\ paths_to_nodes = <<>> /\ nodes_to_paths = <<>> /\ starts_from = <<>>
    /\ ~ENABLED SolveNextStart

\* with raise_error False the exit code is 3
FailedCheckExitsWhenNotRaising ==
  (NormalizeCalledOnBadArgs /\ ~input[1].raise_error) =>
    (outcome = "SystemExit" /\ phase = "exited")

(***************************************************************************)
(* Dead ends among edges that are pruned.                                  *)
(***************************************************************************)
\* the call at the top of the stack found, at fewer steps than there are
\* edges, no edge at its node that is both untaken and unpruned: there was
\* no untaken edge, or every untaken edge was skipped as pruned
NoUnprunedEdgeRemains ==
  /\ phase = "running"
  /\ stack # <<>>
  /\ ~Top.called
  /\ Top.num_steps_taken < NumPaths
  /\ \/ Top.next_steps = <<>>
     \/ /\ Top.i > Len(Top.next_steps)
        /\ Top.skipped = Len(Top.next_steps)

\* the trimmed buffer counts as exhausted in the set: it or one of its
\* prefixes is a member
RecordedIn(ep, path) ==
  \E length \in 0..Len(Trimmed(path)) : Prefix(path, length) \in ep[1]

\* C28: when a call that found no untaken and unpruned edge at its node
\* ends, whether no edge was untaken or every untaken edge was skipped as
\* pruned, the dead-end counter has grown by one and, when the set is
\* tracked, the trimmed buffer is recorded in the exhausted-prefix set.
C28_DeadEndAmongPrunedEdgesIsRecorded ==
  [][(NoUnprunedEdgeRemains /\ stack' = Popped /\ restarts' = restarts)
       => /\ total_paths_exhausted_num' = total_paths_exhausted_num + 1
          /\ exhausted_paths # None =>
               /\ exhausted_paths' # None
               /\ RecordedIn(exhausted_paths', steps_taken)]_vars

\* the same where no edge is untaken, which is the dead end of line 383
DeadEndWithoutUntakenEdgeIsRecorded ==
  [][(NoUnprunedEdgeRemains /\ Top.next_steps = <<>>
        /\ stack' = Popped /\ restarts' = restarts)
       => /\ total_paths_exhausted_num' = total_paths_exhausted_num + 1
          /\ exhausted_paths # None =>
               /\ exhausted_paths' # None
               /\ RecordedIn(exhausted_paths', steps_taken)]_vars

(***************************************************************************)
(* The order of the enumeration.                                           *)
(***************************************************************************)
\* s comes before t in the lexicographic order of edge-ID sequences
LexLess(s, t) ==
  \E i \in 1..Len(t) :
     /\ \A j \in 1..(i - 1) : j <= Len(s) /\ s[j] = t[j]
     /\ (i > Len(s) \/ s[i] < t[i])

StrictlyAscending(q) == \A i, j \in DOMAIN q : i < j => q[i] < q[j]

\* the call of frame f tries the untaken edges at its node in ascending
\* order: its candidates are exactly these edges, smallest first, and the
\* edge it has gone into is the candidate at its place in that row
TriesInAscendingOrder(f) ==
  f.num_steps_taken < NumPaths =>
    /\ StrictlyAscending(f.next_steps)
    /\ Range(f.next_steps) =
         Range(nodes_to_paths[f.start_from])
           \ Range(SubSeq(steps_taken, 1, f.num_steps_taken))
    /\ f.called => /\ f.i \in DOMAIN f.next_steps
                   /\ steps_taken[f.num_steps_taken + 1] = f.next_steps[f.i]

\* the trails yielded so far, in the order yielded
TrailsInOrder == [k \in DOMAIN emitted |-> emitted[k].trail]

\* C29: every call tries the untaken edges at its node in ascending order
\* of edge ID; a search from a single start yields its trails in strictly
\* increasing lexicographic order; and a search from a single start that
\* ran to its end without a restart has yielded every trail from that
\* start, hence the same trails in the same order as any other such run on
\* the same graph and start.
C29_AscendingOrder ==
  /\ phase = "running" => \A k \in DOMAIN stack : TriesInAscendingOrder(stack[k])
  /\ Len(starts_from) = 1 =>
       \A i, j \in DOMAIN emitted :
          i < j => LexLess(emitted[i].trail, emitted[j].trail)
  /\ (phase = "done" /\ Len(starts_from) = 1 /\ restarts = 0) =>
       Range(TrailsInOrder) = EulerTrails(starts_from[1])

C29_Witness ==
  /\ phase = "done"
  /\ Len(starts_from) = 1
  /\ restarts = 0
  /\ Len(emitted) >= 2
  /\ NumPaths = 3
  /\ LexLess(emitted[1].trail, emitted[2].trail)

(***************************************************************************)
(* The shape of the shared buffer.                                         *)
(***************************************************************************)
\* the assertion of _default_path_formatter: no non-zero byte follows a
\* zero byte
ZeroSuffixAssertion(path) ==
  \A i, j \in DOMAIN path : (i < j /\ path[i] = 0) => path[j] = 0

\* the first d slots hold distinct edge IDs, none zero, and every slot
\* after them holds zero
ShapedAtDepth(path, d) ==
  /\ \A k \in 1..d : path[k] \in 1..NumPaths
  /\ \A i, j \in 1..d : path[i] = path[j] => i = j
  /\ \A k \in (d + 1)..Len(path) : path[k] = 0

\* a search from a start node is at its very beginning
SearchBegins ==
  /\ phase = "running"
  /\ Len(stack) = 1
  /\ Top.num_steps_taken = 0
  /\ Top.i = 1
  /\ ~Top.called

\* C30: while a call that was entered with d steps taken is the innermost
\* one, and when a call entered with d steps taken has just returned to
\* its caller, the first d slots of the buffer hold distinct non-zero edge
\* IDs and all later slots are zero; the buffer is all zero when the search
\* from a start node begins, for the first start node and for every later
\* one; hence at a dead end no non-zero byte follows a zero byte, which is
\* what the path formatter asserts.
C30_BufferShape ==
  (steps_taken # <<>> /\ phase # "crashed") =>
    /\ Len(steps_taken) = NumPaths
    /\ ShapedAtDepth(steps_taken, EntryDepth)
    /\ SearchBegins => steps_taken = Zeros(NumPaths)
    /\ AtDeadEnd => ZeroSuffixAssertion(steps_taken)

C30_Witness ==
  /\ SearchBegins
  /\ next_start = 2
  /\ NumPaths = 3
  /\ steps_taken = Zeros(NumPaths)
  /\ total_paths_exhausted_num > 0
  /\ restarts = 0

\* a dead end after two steps, the buffer holding them before a zero
BufferAtADeadEnd ==
  /\ AtDeadEnd
  /\ Top.num_steps_taken = 2
  /\ NumPaths = 3
  /\ steps_taken[1] # 0 /\ steps_taken[2] # 0 /\ steps_taken[3] = 0

(***************************************************************************)
(* The prune query.                                                        *)
(***************************************************************************)
\* the call at the top of the stack is about to take its next candidate
\* (line 376)
AtCandidate ==
  /\ phase = "running"
  /\ stack # <<>>
  /\ Top.num_steps_taken < NumPaths
  /\ ~Top.called
  /\ Top.i <= Len(Top.next_steps)

\* the buffer after line 378 wrote the candidate into the slot of the call
Tentative ==
  [steps_taken EXCEPT ![Top.num_steps_taken + 1] = Top.next_steps[Top.i]]

\* one of the first d + 1 prefixes of buf, none empty, is a member of the set
HasExhaustedPrefix(buf, d) ==
  \E k \in 1..(d + 1) : SubSeq(buf, 1, k) \in exhausted_paths[1]

\* the step entered a new call of _solve_from
Recursed == Len(stack') = Len(stack) + 1

\* C31: when a call takes a candidate edge at depth d, it recurses into it
\* (with the edge written into slot d) if and only if the set is untracked,
\* empty, or holds none of the prefixes of length 1..d+1 of the buffer with
\* the edge written; a candidate that is not recursed into leaves slot d
\* zero, and so does the return of the recursion.
C31_PruneQuery ==
  [][/\ (AtCandidate /\ stack' # stack /\ restarts' = restarts) =>
          /\ Recursed <=>
               \/ ~Truthy(exhausted_paths)
               \/ ~HasExhaustedPrefix(Tentative, Top.num_steps_taken)
          /\ Recursed => steps_taken' = Tentative
          /\ ~Recursed =>
               /\ Len(stack') = Len(stack)
               /\ stack'[Len(stack)].i = Top.i + 1
               /\ steps_taken' = [steps_taken EXCEPT ![Top.num_steps_taken + 1] = 0]
     /\ (phase = "running" /\ stack # <<>> /\ Top.called
           /\ stack' # stack /\ restarts' = restarts) =>
          steps_taken' = [steps_taken EXCEPT ![Top.num_steps_taken + 1] = 0]]_vars

\* a call skipped one candidate as pruned and recursed into a later one
C31_Witness ==
  /\ phase = "running"
  /\ Truthy(exhausted_paths)
  /\ \E k \in DOMAIN stack :
        /\ k < Len(stack)
        /\ stack[k].skipped > 0
        /\ stack[k].called

(***************************************************************************)
(* The threshold of the compaction.                                        *)
(***************************************************************************)
\* the set after line 386 added the trimmed buffer
WithTheDeadEnd == exhausted_paths[1] \cup {Trimmed(steps_taken)}

\* the test of the claim on the set with the new member
ExceedsThreshold ==
  Cardinality(WithTheDeadEnd) >
    exhausted_paths_prune_threshold + paths_length_at_last_prune

\* the step processed the dead end at the top of the stack, tracking the set
DeadEndProcessed ==
  /\ AtDeadEnd
  /\ exhausted_paths # None
  /\ stack' # stack
  /\ restarts' = restarts

\* S is T without the members that have a proper prefix in T
CompactionOf(S, T) ==
  S = {q \in T : \A r \in T : ~IsProperPrefix(r, q)}

\* C32: at a dead end with a tracked set, the set with the new member is
\* compacted, and its size recorded as the size at the last compaction, when
\* its size exceeds the threshold plus the size at the last compaction; when
\* it does not, and no save follows in the same step, the set is left as it
\* is with the new member and the recorded size is unchanged; either way the
\* size of the set after the dead end is at most the threshold plus the size
\* recorded at the last compaction.
C32_CompactionThreshold ==
  [][DeadEndProcessed =>
       /\ exhausted_paths' # None
       /\ ExceedsThreshold =>
            /\ CompactionOf(exhausted_paths'[1], WithTheDeadEnd)
            /\ paths_length_at_last_prune' = Cardinality(exhausted_paths'[1])
       /\ (~ExceedsThreshold /\ ~SaveWrites) =>
            /\ exhausted_paths'[1] = WithTheDeadEnd
            /\ paths_length_at_last_prune' = paths_length_at_last_prune
       /\ Cardinality(exhausted_paths'[1]) <=
            exhausted_paths_prune_threshold + paths_length_at_last_prune']_vars

\* a dead end without a save has just compacted a set that had outgrown a
\* threshold of one, after an earlier dead end that had left it alone
C32_Witness ==
  /\ phase = "running"
  /\ checkpoint_path = None
  /\ exhausted_paths_prune_threshold = 1
  /\ prune_input # None
  /\ Cardinality(prune_input[1]) = 2
  /\ paths_length_at_last_prune = Cardinality(exhausted_paths[1])

\* the same bound as a property of every state, which the set loaded from a
\* checkpoint does not keep: the recorded size starts again at zero
SizeWithinThresholdAlways ==
  exhausted_paths # None =>
    Cardinality(exhausted_paths[1]) <=
      exhausted_paths_prune_threshold + paths_length_at_last_prune

(***************************************************************************)
(* Emissions and the solution set.                                         *)
(***************************************************************************)
\* how many times this process yielded the edge sequence t
TimesEmitted(t) == Cardinality({k \in DOMAIN emitted : emitted[k].trail = t})

\* the places of the start list from which t is a complete trail
StartsOf(t) == {i \in DOMAIN starts_from : t \in EulerTrails(starts_from[i])}

EmittedOncePerStart ==
  phase = "done" =>
    \A t \in EmittedTrails : TimesEmitted(t) = Cardinality(StartsOf(t))

(***************************************************************************)
(* Elapsed time across restarts.                                           *)
(***************************************************************************)
\* the step is a call of do_load_progress that loaded the checkpoint file
LoadSucceeds ==
  /\ restarts' = restarts + 1
  /\ load_status' = "ok"

\* the step is a call of do_save that wrote the checkpoint file
SaveCompletes ==
  /\ restarts' = restarts
  /\ DoSaveProceeds(checkpoint_path, since_last_save)
  /\ checkpoint_file'.kind = "complete"
  /\ since_last_save' = 0

\* C34: a load that succeeds sets run_start to the clock at the load minus
\* the total_time loaded; every save that a process completes after a
\* successful load writes as total_time the loaded total_time plus the time
\* that passed in the process since the load; and a save that replaces a
\* complete checkpoint file writes a total_time that is not smaller than
\* the one of the file it replaces.
C34_ElapsedTimeAcrossRestarts ==
  [][/\ LoadSucceeds => run_start' = now' - total_time[1]
     /\ SaveCompletes =>
          /\ total_time' # None
          /\ loaded_time # None =>
               total_time'[1] = loaded_time[1].total + (now - loaded_time[1].at)
          /\ total_time # None => total_time'[1] >= total_time[1]]_vars

\* a process that loaded a total_time of two, at a clock that read less than
\* that, has saved again after time passed
C34_Witness ==
  /\ phase = "timing"
  /\ loaded_time # None
  /\ loaded_time[1].total = 2
  /\ loaded_time[1].at < 2
  /\ total_time # None
  /\ total_time[1] > loaded_time[1].total
  /\ checkpoint_file.kind = "complete"
  /\ since_last_save = 0
  /\ now > loaded_time[1].at

(***************************************************************************)
(* Termination.                                                            *)
(***************************************************************************)
\* the generator chain has ended: exhausted, or left by an exception
Ended == phase \in {"done", "crashed"}

\* the calls of _solve_from that are active are entered with 0, 1, 2, ..
\* steps taken, none with more than there are edges
DepthWithinEdgeCount ==
  \A k \in DOMAIN stack :
     /\ stack[k].num_steps_taken = k - 1
     /\ stack[k].num_steps_taken <= NumPaths

BufferContents ==
  {q \o Zeros(NumPaths - Len(q)) : q \in SeqsUpTo(1..NumPaths, NumPaths)}

\* C36: right after do_prune_exhausted_paths_list, path_is_pruned gives for
\* every content of the buffer the answer it gave on the set before the
\* compaction, also when that set holds the empty sequence.
C36_CompactionPreservesPruneQuery ==
  prune_input # None =>
    \A path \in BufferContents :
       PathIsPruned(exhausted_paths, path) = PathIsPruned(prune_input, path)

\* the same for the sets that do not hold the empty sequence
CompactionPreservesPruneQueryWithoutEmpty ==
  (prune_input # None /\ <<>> \notin prune_input[1]) =>
    \A path \in BufferContents :
       PathIsPruned(exhausted_paths, path) = PathIsPruned(prune_input, path)

\* a compaction was given the empty sequence among other members
CompactedWithEmptySequence ==
  /\ prune_input # None
  /\ <<>> \in prune_input[1]
  /\ prune_input[1] # {<<>>}

(***************************************************************************)
(* The exhausted-prefix set of a search from one start node.               *)
(***************************************************************************)
\* a process searching from a single start node, which began with an empty
\* tracked set and a counter of zero
SingleStartBegunEmpty ==
  /\ Len(starts_from) = 1
  /\ track
  /\ load_status # "ok"

\* no member of S is a proper prefix of another member
PrefixFree(S) == \A q \in S : \A r \in S : ~IsProperPrefix(r, q)

\* C37: in a search from a single start node that began with an empty
\* tracked set and a zero counter, at every moment no member of the set is
\* a proper prefix of another member, a compaction leaves the set as it
\* was given, and the set has as many members as the counter counts.
C37_SingleStartSetIsMinimal ==
  SingleStartBegunEmpty =>
    /\ exhausted_paths # None
    /\ PrefixFree(exhausted_paths[1])
    /\ prune_input # None => exhausted_paths = prune_input
    /\ Cardinality(exhausted_paths[1]) = total_paths_exhausted_num

\* such a search has just compacted a set of three dead ends
C37_Witness ==
  /\ SingleStartBegunEmpty
  /\ phase = "running"
  /\ prune_input # None
  /\ total_paths_exhausted_num = 3
  /\ Cardinality(exhausted_paths[1]) = 3

\* the same in a process that loaded a checkpoint
ResumedSingleStartSetIsMinimal ==
  (Len(starts_from) = 1 /\ track /\ load_status = "ok") =>
    /\ exhausted_paths # None
    /\ PrefixFree(exhausted_paths[1])
    /\ Cardinality(exhausted_paths[1]) = total_paths_exhausted_num

(***************************************************************************)
(* The dead-end counter across a restart.                                  *)
(***************************************************************************)
\* the dead ends of one uninterrupted search from the start node: what the
\* search records when it tracks them from the empty set
DeadEndsOfFullRun ==
  SearchFrom(starts_from[1], Zeros(NumPaths), 0,
             [ep |-> Some({}), sols |-> {}, out |-> <<>>]).ep[1]

\* a search from a single start node, with a checkpoint path, was begun by a
\* process that loaded the checkpoint of an earlier process, and has ended
ResumedSearchEnded ==
  /\ phase = "done"
  /\ Len(starts_from) = 1
  /\ checkpoint_path # None
  /\ load_status = "ok"

\* C38: a search from a single start node that was enumerated in part,
\* saved, begun again from the checkpoint and completed ends with the
\* dead-end counter that one uninterrupted enumeration ends with.
C38_CounterAcrossRestart ==
  ResumedSearchEnded =>
    total_paths_exhausted_num = Cardinality(DeadEndsOfFullRun)

\* the same for the searches that track the exhausted-prefix set, whose
\* checkpoint records the dead ends counted so far
CounterAcrossRestartWhenTracked ==
  (ResumedSearchEnded /\ track) =>
    /\ total_paths_exhausted_num = Cardinality(DeadEndsOfFullRun)
    /\ exhausted_paths = Some(DeadEndsOfFullRun)

\* a tracked search was resumed from a checkpoint that held some of its
\* dead ends and not all, and has ended
TrackedSearchResumed ==
  /\ ResumedSearchEnded
  /\ track
  /\ at_save.num_exhausted > 0
  /\ at_save.num_exhausted < total_paths_exhausted_num
  /\ total_paths_exhausted_num = Cardinality(DeadEndsOfFullRun)

\* an uninterrupted search ends with that counter, tracked or not
FullRunCountsItsDeadEnds ==
  (phase = "done" /\ Len(starts_from) = 1 /\ restarts = 0) =>
    total_paths_exhausted_num = Cardinality(DeadEndsOfFullRun)

(***************************************************************************)
(* The order in which the caller's dict lists its nodes.                   *)
(***************************************************************************)
\* what solve_from_multiple yields and leaves when it searches the
\* normalized maps from the given start nodes, without compaction
RunFrom(starts) ==
  SearchEach(starts, 1,
             [ep |-> IF track THEN Some({}) ELSE None, sols |-> {},
              out |-> <<>>])

\* the orders in which a dict equal to the caller's node map can list its keys
NodeKeyOrders == KeyOrders(DOMAIN input[1].nodes_to_paths.items)

\* print_all_dict_solutions has searched the caller's maps to the end
AllSolutionsPrinted ==
  /\ phase = "done"
  /\ input # None
  /\ translation # None

\* C39: when print_all_dict_solutions has searched the maps to the end, the
\* same maps with the nodes listed in any other order would have been
\* searched from the same start nodes in the same order, with the same
\* sequence of trails yielded and the same exhausted-prefix set left.
C39_InputOrderDoesNotMatter ==
  AllSolutionsPrinted =>
    \A node_keys \in NodeKeyOrders :
       LET starts == KeysAsInserted(node_keys, Tables.nodes_x_rev)
       IN  /\ starts = starts_from
           /\ RunFrom(starts).out = TrailsInOrder
           /\ RunFrom(starts).ep = exhausted_paths

\* what the search yields and leaves is what RunFrom computes for its starts
RunFromIsTheRun ==
  AllSolutionsPrinted =>
    /\ RunFrom(starts_from).out = TrailsInOrder
    /\ RunFrom(starts_from).ep = exhausted_paths

\* two orders of the same nodes gave different sequences of trails
OrderChangedTheTrails ==
  /\ AllSolutionsPrinted
  /\ \E node_keys \in NodeKeyOrders :
        RunFrom(KeysAsInserted(node_keys, Tables.nodes_x_rev)).out
          # TrailsInOrder

====
